---- MODULE Spec2Model ----
(***************************************************************************)
(* A model of the C lexer of c_lexer: the Lexer facade (constructor, peek, *)
(* eat, preload), the scanning automaton Lexer::scan_token, the            *)
(* SourceReader over a std::istream, and the batch driver scan_tokens.     *)
(*                                                                         *)
(* Characters are one-element strings; control characters carry mnemonic   *)
(* names.  A lexeme text is a sequence of characters.  `char` is signed,   *)
(* as on the x86 builds the tests run on, so that EOF narrowed to char and *)
(* the byte 0xFF are the same char value.                                  *)
(***************************************************************************)
EXTENDS Integers, Sequences, FiniteSets, TLC

----------------------------------------------------------------------------
\* Characters.

\* The char value -1: what `c = EOF` stores in `char c`.
EOFc == "EOF"
\* The input byte 0xFF, as it sits in the stream.
XFF == "xFF"
NUL == "NUL"
NL == "NL"
HT == "HT"
VT == "VT"
FF == "FF"
CR == "CR"
SP == " "
SQ == "'"
DQ == "\""
BS == "\\"

\* SourceReader::get / peek return `char`: the int from the stream is narrowed.
ToChar(b) == IF b = XFF THEN EOFc ELSE b

Digits == {"0", "1", "2", "3", "4", "5", "6", "7", "8", "9"}
OctDigits == {"0", "1", "2", "3", "4", "5", "6", "7"}
XDigits == Digits \cup {"a", "b", "c", "d", "e", "f", "A", "B", "C", "D", "E", "F"}
Lower == {"a", "b", "c", "d", "e", "f", "g", "h", "i", "j", "k", "l", "m",
          "n", "o", "p", "q", "r", "s", "t", "u", "v", "w", "x", "y", "z"}
Upper == {"A", "B", "C", "D", "E", "F", "G", "H", "I", "J", "K", "L", "M",
          "N", "O", "P", "Q", "R", "S", "T", "U", "V", "W", "X", "Y", "Z"}

isdigit(c) == c \in Digits
isxdigit(c) == c \in XDigits
isalpha(c) == c \in Lower \cup Upper
isalnum(c) == isalpha(c) \/ isdigit(c)
isspace(c) == c \in {SP, HT, NL, VT, FF, CR}
isoct(c) == c \in OctDigits

is_ident_start(c) == isalpha(c) \/ c = "_"

is_ident_cont(c) == isalnum(c) \/ c = "_"

\* strchr("uUlLwW", c) != NULL: strchr also finds the terminating NUL.
is_int_suffix_start(c) == c \in {"u", "U", "l", "L", "w", "W", NUL}

\* strchr("\'\"?\\abfnrtv", c) != NULL
is_simple_escape_sequence(c) ==
  c \in {SQ, DQ, "?", BS, "a", "b", "f", "n", "r", "t", "v", NUL}

cols_per_htab == 1
rows_per_vtab == 1
rows_per_formfeed == 1

----------------------------------------------------------------------------
\* State.

VARIABLES
  input,      \* the bytes of the std::istream the SourceReader wraps
  pos,        \* number of bytes consumed from the stream (get area position)
  eofbit,     \* std::ios_base::eofbit of the stream
  failbit,    \* std::ios_base::failbit of the stream
  badbit,     \* std::ios_base::badbit of the stream
  row,        \* Lexer::row_
  col,        \* Lexer::col_
  lookahead,  \* Lexer::lookahead_, front first
  hung,       \* TRUE once a call has entered a scan that never returns
  op,         \* the last call made on the Lexer
  ret,        \* the lexeme that call returned (peek, eat)
  nscans,     \* number of scan_token calls that call made
  diags,      \* print_error calls made by that call, in order
  out,        \* lexemes returned by eat() so far, in order
  io,         \* SourceReader calls made by that call's scans, in order
  arg,        \* the argument of that call (preload)
  batch       \* what scan_tokens returned for the same text, once called

vars == <<input, pos, eofbit, failbit, badbit, row, col, lookahead, hung,
          op, ret, nscans, diags, out, io, arg, batch>>

Lexeme(lex, tkn, r0, c0) == [lexeme |-> lex, token |-> tkn, row |-> r0, col |-> c0]

NoLexeme == [lexeme |-> <<>>, token |-> "NONE", row |-> 0, col |-> 0]

----------------------------------------------------------------------------
\* SourceReader over std::istream, threaded through the scan configuration q.
\* q.got / q.pk hold the value the last get / peek returned.

good(q) == ~q.eofbit /\ ~q.failbit /\ ~q.badbit

\* SourceReader::eof
sr_eof(q) == q.eofbit

\* SourceReader::get: std::istream::get narrowed to char.
sr_get(q) ==
  LET l == [q EXCEPT !.io = Append(@, "get")] IN
  IF ~good(l) THEN [l EXCEPT !.failbit = TRUE, !.got = EOFc]
  ELSE IF l.pos >= Len(l.input)
       THEN [l EXCEPT !.eofbit = TRUE, !.failbit = TRUE, !.got = EOFc]
       ELSE [l EXCEPT !.pos = @ + 1, !.got = ToChar(l.input[l.pos + 1])]

\* SourceReader::peek: std::istream::peek narrowed to char.
sr_peek(q) ==
  LET l == [q EXCEPT !.io = Append(@, "peek")] IN
  IF ~good(l) THEN [l EXCEPT !.failbit = TRUE, !.pk = EOFc]
  ELSE IF l.pos >= Len(l.input)
       THEN [l EXCEPT !.eofbit = TRUE, !.pk = EOFc]
       ELSE [l EXCEPT !.pk = ToChar(l.input[l.pos + 1])]

\* SourceReader::unget: std::istream::putback on a read-only string buffer.
sr_unget(q, ch) ==
  LET l == [q EXCEPT !.io = Append(@, "unget"), !.eofbit = FALSE] IN
  IF ~good(l) THEN [l EXCEPT !.failbit = TRUE]
  ELSE IF l.pos > 0 /\ ToChar(l.input[l.pos]) = ch
       THEN [l EXCEPT !.pos = @ - 1]
       ELSE [l EXCEPT !.badbit = TRUE]

----------------------------------------------------------------------------
\* The macros of Lexer.cpp.

\* c = sr_->eof() ? EOF : sr_->get();
ReadC(q) ==
  IF sr_eof(q) THEN [q EXCEPT !.c = EOFc]
  ELSE LET g == sr_get(q) IN [g EXCEPT !.c = g.got]

WsCursor(q) ==
  CASE q.c = NL -> [q EXCEPT !.row = @ + 1, !.col = 1]
    [] q.c = VT -> [q EXCEPT !.row = @ + rows_per_vtab, !.col = 1]
    [] q.c = FF -> [q EXCEPT !.row = @ + rows_per_formfeed, !.col = 1]
    [] q.c = SP -> [q EXCEPT !.col = @ + 1]
    [] q.c = HT -> [q EXCEPT !.col = @ + cols_per_htab]
    [] OTHER -> q

RECURSIVE WsLoop(_)
WsLoop(q) == IF isspace(q.c) THEN WsLoop(ReadC(WsCursor(q))) ELSE q

eat_whitespace(q) == WsLoop(ReadC(q))

\* r() that leaves col_ where it was.
r_NoAdvance(q, tkn, cols) ==
  [q EXCEPT !.ret = Lexeme(q.lex, tkn, q.row, q.col), !.done = TRUE]

r(q, tkn, cols) ==
  [q EXCEPT !.col = @ + cols,
            !.ret = Lexeme(q.lex, tkn, q.row, (q.col + cols) - cols),
            !.done = TRUE]

rinvalid(q) == r(q, "INVALID", Len(q.lex))

pop_back(s) == SubSeq(s, 1, Len(s) - 1)

\* backup() without the test for EOF.
backup_AtEof(q, ch) == LET u == sr_unget(q, ch) IN [u EXCEPT !.lex = pop_back(@)]

backup(q, ch) ==
  IF ch # EOFc
  THEN LET u == sr_unget(q, ch) IN [u EXCEPT !.lex = pop_back(@)]
  ELSE q

nextst(q, s) == [q EXCEPT !.st = s]

holdst(q, s) == nextst([q EXCEPT !.hold = TRUE], s)

advance(q) == LET g == sr_get(q) IN [g EXCEPT !.lex = Append(@, g.got)]

advancest(q, s) == nextst(advance(q), s)

pushst(q, s) == nextst([q EXCEPT !.states = Append(@, q.st)], s)

\* popst() that takes the state from the stack and leaves it there.
popst_NoPop(q) == nextst(q, q.states[Len(q.states)])

popst(q) == [nextst(q, q.states[Len(q.states)]) EXCEPT !.states = pop_back(@)]

pop_holdst(q) == [popst(q) EXCEPT !.hold = TRUE]

\* Lexer::print_error: the message with the cursor at the time of the call.
print_error(q, msg) ==
  [q EXCEPT !.diags = Append(@, [msg |-> msg, row |-> q.row, col |-> q.col])]

----------------------------------------------------------------------------
\* Lexer::scan_token: the states outside the keyword trie.

\* `if (sr_->peek() == '=') { advance(); r(t2, 2); } else { r(t1, 1); }`
OpAssign(q, t1, t2) ==
  LET p == sr_peek(q) IN
  IF p.pk = "=" THEN r(advance(p), t2, 2) ELSE r(p, t1, 1)

\* The first characters START sends into the keyword trie, with their states.
StartTrie ==
  ("a" :> "GOT_a") @@ ("b" :> "GOT_b") @@ ("c" :> "GOT_c") @@ ("d" :> "GOT_d") @@
  ("e" :> "GOT_e") @@ ("f" :> "GOT_f") @@ ("g" :> "GOT_g") @@ ("i" :> "GOT_i") @@
  ("l" :> "GOT_l") @@ ("L" :> "GOT_L") @@ ("n" :> "GOT_n") @@ ("r" :> "GOT_r") @@
  ("s" :> "GOT_s") @@ ("t" :> "GOT_t") @@ ("u" :> "GOT_u") @@ ("U" :> "GOT_U") @@
  ("v" :> "GOT_v") @@ ("w" :> "GOT_w") @@ ("_" :> "GOT__")

\* The one-character tokens of START.
StartSingle ==
  ("~" :> "BIT_NOT") @@ ("," :> "COMMA") @@ ("?" :> "QUESTION") @@ (":" :> "COLON") @@
  ("(" :> "LPAREN") @@ (")" :> "RPAREN") @@ ("{" :> "LBRACE") @@ ("}" :> "RBRACE") @@
  ("[" :> "LSQUARE") @@ ("]" :> "RSQUARE") @@ (";" :> "SEMI")

\* START default branch returning the character as an INVALID lexeme.
SkipInvalid_AsToken(q) == rinvalid(print_error(q, "Skipped invalid character"))

\* START default branch, not an identifier start: the character is skipped.
SkipInvalid(q) ==
  LET e == print_error(q, "Skipped invalid character") IN
  holdst(eat_whitespace([e EXCEPT !.col = @ + 1]), "START")

\* START '.' that does not push the second dot back when no third follows.
StDot_NoBackup(q) ==
  LET p == sr_peek(q) IN
  IF p.pk = "."
  THEN LET a == advance(p)
           p2 == sr_peek(a)
       IN IF p2.pk = "." THEN r(advance(p2), "ELLIPSIS", 3)
          ELSE r(p2, "DOT", 1)
  ELSE IF isdigit(p.pk) THEN nextst(p, "GOT_FLOAT_CONST_DOT_DIGIT")
  ELSE r(p, "DOT", 1)

StDot(q) ==
  LET p == sr_peek(q) IN
  IF p.pk = "."
  THEN LET a == advance(p)
           p2 == sr_peek(a)
       IN IF p2.pk = "." THEN r(advance(p2), "ELLIPSIS", 3)
          ELSE r(backup(p2, "."), "DOT", 1)
  ELSE IF isdigit(p.pk) THEN nextst(p, "GOT_FLOAT_CONST_DOT_DIGIT")
  ELSE r(p, "DOT", 1)

\* `|` `&` `+`: doubled, or followed by `=`, or alone.
OpDouble(q, ch, tdbl, tasg, t1) ==
  LET p == sr_peek(q) IN
  IF p.pk = ch THEN r(advance(p), tdbl, 2)
  ELSE IF p.pk = "=" THEN r(advance(p), tasg, 2)
  ELSE r(p, t1, 1)

StMinus(q) ==
  LET p == sr_peek(q) IN
  IF p.pk = "-" THEN r(advance(p), "DECR", 2)
  ELSE IF p.pk = "=" THEN r(advance(p), "SUB_ASSIGN", 2)
  ELSE IF p.pk = ">" THEN r(advance(p), "ARROW", 2)
  ELSE r(p, "MINUS", 1)

StZero(q) ==
  LET p == sr_peek(q) IN
  IF p.pk \in {"x", "X"} THEN advancest(p, "GOT_0x")
  ELSE IF p.pk \in {"b", "B"} THEN advancest(p, "GOT_BIN_CONST_START")
  ELSE nextst(p, "GOT_OCT_LITERAL")

StStart(q) ==
  CASE q.c = EOFc -> holdst(q, "THE_END")
    [] q.c \in DOMAIN StartSingle -> r(q, StartSingle[q.c], 1)
    [] q.c = "%" -> OpAssign(q, "MOD", "MOD_ASSIGN")
    [] q.c = "/" -> OpAssign(q, "DIV", "DIV_ASSIGN")
    [] q.c = "*" -> OpAssign(q, "STAR", "MUL_ASSIGN")
    [] q.c = "=" -> OpAssign(q, "ASSIGN", "EQUALS")
    [] q.c = "!" -> OpAssign(q, "LOG_NOT", "NOTEQUALS")
    [] q.c = "^" -> OpAssign(q, "BIT_XOR", "XOR_ASSIGN")
    [] q.c = "." -> StDot(q)
    [] q.c = "|" -> OpDouble(q, "|", "LOG_OR", "OR_ASSIGN", "BIT_OR")
    [] q.c = "&" -> OpDouble(q, "&", "LOG_AND", "AND_ASSIGN", "AMP")
    [] q.c = "+" -> OpDouble(q, "+", "INCR", "ADD_ASSIGN", "PLUS")
    [] q.c = "-" -> StMinus(q)
    [] q.c = ">" -> nextst(q, "GOT_GT")
    [] q.c = "<" -> nextst(q, "GOT_LT")
    [] q.c = SQ -> nextst(q, "GOT_CHAR_CONST_START")
    [] q.c = DQ -> nextst(q, "GOT_STRING_LIT_START")
    [] q.c = "0" -> StZero(q)
    [] q.c \in Digits \ {"0"} -> holdst(q, "GOT_INT_LITERAL")
    [] q.c \in DOMAIN StartTrie -> nextst(q, StartTrie[q.c])
    [] OTHER -> IF is_ident_start(q.c) THEN holdst(q, "GOT_IDENT")
                ELSE SkipInvalid(q)

\* GOT_GT and GOT_LT without the look-ahead for `=` after the doubled character.
StShift_NoAssign(q, ch, teq, tshasg, tsh, t1) ==
  CASE q.c = "=" -> r(q, teq, 2)
    [] q.c = ch -> r(q, tsh, 2)
    [] OTHER -> r(backup(q, q.c), t1, 1)

\* GOT_GT and GOT_LT
StShift(q, ch, teq, tshasg, tsh, t1) ==
  CASE q.c = "=" -> r(q, teq, 2)
    [] q.c = ch -> LET p == sr_peek(q) IN
                   IF p.pk = "=" THEN r(advance(p), tshasg, 3) ELSE r(p, tsh, 2)
    [] OTHER -> r(backup(q, q.c), t1, 1)

StIdent(q) ==
  IF is_ident_cont(q.c) THEN q
  ELSE LET b == backup(q, q.c) IN r(b, "IDENTIFIER", Len(b.lex))

\* Keyword-trie states of scan_token, in source order: one record field per
\* `case GOT_<prefix>:` block. TrieNext holds the plain `nextst` edges.
TrieNext ==
  [
    GOT__ |-> ("A" :> "GOT__A") @@ ("B" :> "GOT__B") @@ ("C" :> "GOT__C") @@ ("D" :> "GOT__D") @@ ("G" :> "GOT__G") @@ ("I" :> "GOT__I") @@ ("N" :> "GOT__N") @@ ("S" :> "GOT__S") @@ ("T" :> "GOT__T"),
    GOT__A |-> ("l" :> "GOT__Al") @@ ("t" :> "GOT__At"),
    GOT__Al |-> ("i" :> "GOT__Ali"),
    GOT__Ali |-> ("g" :> "GOT__Alig"),
    GOT__Alig |-> ("n" :> "GOT__Align"),
    GOT__Align |-> ("a" :> "GOT__Aligna") @@ ("o" :> "GOT__Aligno"),
    GOT__Aligna |-> <<>>,
    GOT__Aligno |-> <<>>,
    GOT__At |-> ("o" :> "GOT__Ato"),
    GOT__Ato |-> ("m" :> "GOT__Atom"),
    GOT__Atom |-> ("i" :> "GOT__Atomi"),
    GOT__Atomi |-> <<>>,
    GOT__B |-> ("i" :> "GOT__Bi") @@ ("o" :> "GOT__Bo"),
    GOT__Bi |-> ("t" :> "GOT__Bit"),
    GOT__Bit |-> ("I" :> "GOT__BitI"),
    GOT__BitI |-> ("n" :> "GOT__BitIn"),
    GOT__BitIn |-> <<>>,
    GOT__Bo |-> ("o" :> "GOT__Boo"),
    GOT__Boo |-> <<>>,
    GOT__C |-> ("o" :> "GOT__Co"),
    GOT__Co |-> ("m" :> "GOT__Com"),
    GOT__Com |-> ("p" :> "GOT__Comp"),
    GOT__Comp |-> ("l" :> "GOT__Compl"),
    GOT__Compl |-> ("e" :> "GOT__Comple"),
    GOT__Comple |-> <<>>,
    GOT__D |-> ("e" :> "GOT__De"),
    GOT__De |-> ("c" :> "GOT__Dec"),
    GOT__Dec |-> ("i" :> "GOT__Deci"),
    GOT__Deci |-> ("m" :> "GOT__Decim"),
    GOT__Decim |-> ("a" :> "GOT__Decima"),
    GOT__Decima |-> ("l" :> "GOT__Decimal"),
    GOT__Decimal |-> ("1" :> "GOT__Decimal1") @@ ("3" :> "GOT__Decimal3") @@ ("6" :> "GOT__Decimal6"),
    GOT__Decimal1 |-> ("2" :> "GOT__Decimal12"),
    GOT__Decimal12 |-> <<>>,
    GOT__Decimal3 |-> <<>>,
    GOT__Decimal6 |-> <<>>,
    GOT__G |-> ("e" :> "GOT__Ge"),
    GOT__Ge |-> ("n" :> "GOT__Gen"),
    GOT__Gen |-> ("e" :> "GOT__Gene"),
    GOT__Gene |-> ("r" :> "GOT__Gener"),
    GOT__Gener |-> ("i" :> "GOT__Generi"),
    GOT__Generi |-> <<>>,
    GOT__I |-> ("m" :> "GOT__Im"),
    GOT__Im |-> ("a" :> "GOT__Ima"),
    GOT__Ima |-> ("g" :> "GOT__Imag"),
    GOT__Imag |-> ("i" :> "GOT__Imagi"),
    GOT__Imagi |-> ("n" :> "GOT__Imagin"),
    GOT__Imagin |-> ("a" :> "GOT__Imagina"),
    GOT__Imagina |-> ("r" :> "GOT__Imaginar"),
    GOT__Imaginar |-> <<>>,
    GOT__N |-> ("o" :> "GOT__No"),
    GOT__No |-> ("r" :> "GOT__Nor"),
    GOT__Nor |-> ("e" :> "GOT__Nore"),
    GOT__Nore |-> ("t" :> "GOT__Noret"),
    GOT__Noret |-> ("u" :> "GOT__Noretu"),
    GOT__Noretu |-> ("r" :> "GOT__Noretur"),
    GOT__Noretur |-> <<>>,
    GOT__S |-> ("t" :> "GOT__St"),
    GOT__St |-> ("a" :> "GOT__Sta"),
    GOT__Sta |-> ("t" :> "GOT__Stat"),
    GOT__Stat |-> ("i" :> "GOT__Stati"),
    GOT__Stati |-> ("c" :> "GOT__Static"),
    GOT__Static |-> ("_" :> "GOT__Static_"),
    GOT__Static_ |-> ("a" :> "GOT__Static_a"),
    GOT__Static_a |-> ("s" :> "GOT__Static_as"),
    GOT__Static_as |-> ("s" :> "GOT__Static_ass"),
    GOT__Static_ass |-> ("e" :> "GOT__Static_asse"),
    GOT__Static_asse |-> ("r" :> "GOT__Static_asser"),
    GOT__Static_asser |-> <<>>,
    GOT__T |-> ("h" :> "GOT__Th"),
    GOT__Th |-> ("r" :> "GOT__Thr"),
    GOT__Thr |-> ("e" :> "GOT__Thre"),
    GOT__Thre |-> ("a" :> "GOT__Threa"),
    GOT__Threa |-> ("d" :> "GOT__Thread"),
    GOT__Thread |-> ("_" :> "GOT__Thread_"),
    GOT__Thread_ |-> ("l" :> "GOT__Thread_l"),
    GOT__Thread_l |-> ("o" :> "GOT__Thread_lo"),
    GOT__Thread_lo |-> ("c" :> "GOT__Thread_loc"),
    GOT__Thread_loc |-> ("a" :> "GOT__Thread_loca"),
    GOT__Thread_loca |-> <<>>,
    GOT_a |-> ("l" :> "GOT_al") @@ ("u" :> "GOT_au"),
    GOT_al |-> ("i" :> "GOT_ali"),
    GOT_ali |-> ("g" :> "GOT_alig"),
    GOT_alig |-> ("n" :> "GOT_align"),
    GOT_align |-> ("a" :> "GOT_aligna") @@ ("o" :> "GOT_aligno"),
    GOT_aligna |-> <<>>,
    GOT_aligno |-> <<>>,
    GOT_au |-> ("t" :> "GOT_aut"),
    GOT_aut |-> <<>>,
    GOT_b |-> ("o" :> "GOT_bo") @@ ("r" :> "GOT_br"),
    GOT_bo |-> ("o" :> "GOT_boo"),
    GOT_boo |-> <<>>,
    GOT_br |-> ("e" :> "GOT_bre"),
    GOT_bre |-> ("a" :> "GOT_brea"),
    GOT_brea |-> <<>>,
    GOT_c |-> ("a" :> "GOT_ca") @@ ("h" :> "GOT_ch") @@ ("o" :> "GOT_co"),
    GOT_ca |-> ("s" :> "GOT_cas"),
    GOT_cas |-> <<>>,
    GOT_ch |-> ("a" :> "GOT_cha"),
    GOT_cha |-> <<>>,
    GOT_co |-> ("n" :> "GOT_con"),
    GOT_con |-> ("s" :> "GOT_cons") @@ ("t" :> "GOT_cont"),
    GOT_cons |-> <<>>,
    GOT_conste |-> ("x" :> "GOT_constex"),
    GOT_constex |-> ("p" :> "GOT_constexp"),
    GOT_constexp |-> <<>>,
    GOT_cont |-> ("i" :> "GOT_conti"),
    GOT_conti |-> ("n" :> "GOT_contin"),
    GOT_contin |-> ("u" :> "GOT_continu"),
    GOT_continu |-> <<>>,
    GOT_d |-> ("e" :> "GOT_de"),
    GOT_de |-> ("f" :> "GOT_def"),
    GOT_def |-> ("a" :> "GOT_defa"),
    GOT_defa |-> ("u" :> "GOT_defau"),
    GOT_defau |-> ("l" :> "GOT_defaul"),
    GOT_defaul |-> <<>>,
    GOT_dou |-> ("b" :> "GOT_doub"),
    GOT_doub |-> ("l" :> "GOT_doubl"),
    GOT_doubl |-> <<>>,
    GOT_e |-> ("l" :> "GOT_el") @@ ("n" :> "GOT_en") @@ ("x" :> "GOT_ex"),
    GOT_el |-> ("s" :> "GOT_els"),
    GOT_els |-> <<>>,
    GOT_en |-> ("u" :> "GOT_enu"),
    GOT_enu |-> <<>>,
    GOT_ex |-> ("t" :> "GOT_ext"),
    GOT_ext |-> ("e" :> "GOT_exte"),
    GOT_exte |-> ("r" :> "GOT_exter"),
    GOT_exter |-> <<>>,
    GOT_f |-> ("a" :> "GOT_fa") @@ ("l" :> "GOT_fl") @@ ("o" :> "GOT_fo"),
    GOT_fa |-> ("l" :> "GOT_fal"),
    GOT_fal |-> ("s" :> "GOT_fals"),
    GOT_fals |-> <<>>,
    GOT_fl |-> ("o" :> "GOT_flo"),
    GOT_flo |-> ("a" :> "GOT_floa"),
    GOT_floa |-> <<>>,
    GOT_fo |-> <<>>,
    GOT_g |-> ("o" :> "GOT_go"),
    GOT_go |-> ("t" :> "GOT_got"),
    GOT_got |-> <<>>,
    GOT_i |-> ("n" :> "GOT_in"),
    GOT_in |-> ("l" :> "GOT_inl"),
    GOT_inl |-> ("i" :> "GOT_inli"),
    GOT_inli |-> ("n" :> "GOT_inlin"),
    GOT_inlin |-> <<>>,
    GOT_l |-> ("o" :> "GOT_lo"),
    GOT_lo |-> ("n" :> "GOT_lon"),
    GOT_lon |-> <<>>,
    GOT_n |-> ("u" :> "GOT_nu"),
    GOT_nu |-> ("l" :> "GOT_nul"),
    GOT_nul |-> ("l" :> "GOT_null"),
    GOT_null |-> ("p" :> "GOT_nullp"),
    GOT_nullp |-> ("t" :> "GOT_nullpt"),
    GOT_nullpt |-> <<>>,
    GOT_r |-> ("e" :> "GOT_re"),
    GOT_re |-> ("g" :> "GOT_reg") @@ ("s" :> "GOT_res") @@ ("t" :> "GOT_ret"),
    GOT_reg |-> ("i" :> "GOT_regi"),
    GOT_regi |-> ("s" :> "GOT_regis"),
    GOT_regis |-> ("t" :> "GOT_regist"),
    GOT_regist |-> ("e" :> "GOT_registe"),
    GOT_registe |-> <<>>,
    GOT_res |-> ("t" :> "GOT_rest"),
    GOT_rest |-> ("r" :> "GOT_restr"),
    GOT_restr |-> ("i" :> "GOT_restri"),
    GOT_restri |-> ("c" :> "GOT_restric"),
    GOT_restric |-> <<>>,
    GOT_ret |-> ("u" :> "GOT_retu"),
    GOT_retu |-> ("r" :> "GOT_retur"),
    GOT_retur |-> <<>>,
    GOT_s |-> ("h" :> "GOT_sh") @@ ("i" :> "GOT_si") @@ ("t" :> "GOT_st") @@ ("w" :> "GOT_sw"),
    GOT_sh |-> ("o" :> "GOT_sho"),
    GOT_sho |-> ("r" :> "GOT_shor"),
    GOT_shor |-> <<>>,
    GOT_si |-> ("g" :> "GOT_sig") @@ ("z" :> "GOT_siz"),
    GOT_sig |-> ("n" :> "GOT_sign"),
    GOT_sign |-> ("e" :> "GOT_signe"),
    GOT_signe |-> <<>>,
    GOT_siz |-> ("e" :> "GOT_size"),
    GOT_size |-> ("o" :> "GOT_sizeo"),
    GOT_sizeo |-> <<>>,
    GOT_st |-> ("a" :> "GOT_sta") @@ ("r" :> "GOT_str"),
    GOT_sta |-> ("t" :> "GOT_stat"),
    GOT_stat |-> ("i" :> "GOT_stati"),
    GOT_stati |-> <<>>,
    GOT_static_ |-> ("a" :> "GOT_static_a"),
    GOT_static_a |-> ("s" :> "GOT_static_as"),
    GOT_static_as |-> ("s" :> "GOT_static_ass"),
    GOT_static_ass |-> ("e" :> "GOT_static_asse"),
    GOT_static_asse |-> ("r" :> "GOT_static_asser"),
    GOT_static_asser |-> <<>>,
    GOT_str |-> ("u" :> "GOT_stru"),
    GOT_stru |-> ("c" :> "GOT_struc"),
    GOT_struc |-> <<>>,
    GOT_sw |-> ("i" :> "GOT_swi"),
    GOT_swi |-> ("t" :> "GOT_swit"),
    GOT_swit |-> ("c" :> "GOT_switc"),
    GOT_switc |-> <<>>,
    GOT_t |-> ("h" :> "GOT_th") @@ ("r" :> "GOT_tr") @@ ("y" :> "GOT_ty"),
    GOT_th |-> ("r" :> "GOT_thr"),
    GOT_thr |-> ("e" :> "GOT_thre"),
    GOT_thre |-> ("a" :> "GOT_threa"),
    GOT_threa |-> ("d" :> "GOT_thread"),
    GOT_thread |-> ("_" :> "GOT_thread_"),
    GOT_thread_ |-> ("l" :> "GOT_thread_l"),
    GOT_thread_l |-> ("o" :> "GOT_thread_lo"),
    GOT_thread_lo |-> ("c" :> "GOT_thread_loc"),
    GOT_thread_loc |-> ("a" :> "GOT_thread_loca"),
    GOT_thread_loca |-> <<>>,
    GOT_tr |-> ("u" :> "GOT_tru"),
    GOT_tru |-> <<>>,
    GOT_ty |-> ("p" :> "GOT_typ"),
    GOT_typ |-> ("e" :> "GOT_type"),
    GOT_type |-> ("d" :> "GOT_typed") @@ ("o" :> "GOT_typeo"),
    GOT_typed |-> ("e" :> "GOT_typede"),
    GOT_typede |-> <<>>,
    GOT_typeo |-> <<>>,
    GOT_typeof_ |-> ("u" :> "GOT_typeof_u"),
    GOT_typeof_u |-> ("n" :> "GOT_typeof_un"),
    GOT_typeof_un |-> ("q" :> "GOT_typeof_unq"),
    GOT_typeof_unq |-> ("u" :> "GOT_typeof_unqu"),
    GOT_typeof_unqu |-> ("a" :> "GOT_typeof_unqua"),
    GOT_typeof_unqua |-> <<>>,
    GOT_U |-> ("'" :> "GOT_CHAR_CONST_START") @@ ("\"" :> "GOT_STRING_LIT_START"),
    GOT_L |-> ("'" :> "GOT_CHAR_CONST_START") @@ ("\"" :> "GOT_STRING_LIT_START"),
    GOT_un |-> ("i" :> "GOT_uni") @@ ("s" :> "GOT_uns"),
    GOT_uni |-> ("o" :> "GOT_unio"),
    GOT_unio |-> <<>>,
    GOT_uns |-> ("i" :> "GOT_unsi"),
    GOT_unsi |-> ("g" :> "GOT_unsig"),
    GOT_unsig |-> ("n" :> "GOT_unsign"),
    GOT_unsign |-> ("e" :> "GOT_unsigne"),
    GOT_unsigne |-> <<>>,
    GOT_v |-> ("o" :> "GOT_vo"),
    GOT_vo |-> ("i" :> "GOT_voi") @@ ("l" :> "GOT_vol"),
    GOT_voi |-> <<>>,
    GOT_vol |-> ("a" :> "GOT_vola"),
    GOT_vola |-> ("t" :> "GOT_volat"),
    GOT_volat |-> ("i" :> "GOT_volati"),
    GOT_volati |-> ("l" :> "GOT_volatil"),
    GOT_volatil |-> <<>>,
    GOT_w |-> ("h" :> "GOT_wh"),
    GOT_wh |-> ("i" :> "GOT_whi"),
    GOT_whi |-> ("l" :> "GOT_whil"),
    GOT_whil |-> <<>>
  ]

\* Edges that complete a keyword: `if (is_ident_cont(sr_->peek())) nextst(GOT_IDENT);
\* else r(Token::<tok>, <cols>);`
TrieKw ==
  [
    GOT__Aligna |-> ("s" :> [tok |-> "_ALIGNAS", cols |-> 8]),
    GOT__Aligno |-> ("f" :> [tok |-> "_ALIGNOF", cols |-> 8]),
    GOT__Atomi |-> ("c" :> [tok |-> "_ATOMIC", cols |-> 7]),
    GOT__BitIn |-> ("t" :> [tok |-> "_BITINT", cols |-> 7]),
    GOT__Boo |-> ("l" :> [tok |-> "_BOOL", cols |-> 5]),
    GOT__Comple |-> ("x" :> [tok |-> "_COMPLEX", cols |-> 8]),
    GOT__Decimal12 |-> ("8" :> [tok |-> "_DECIMAL128", cols |-> 11]),
    GOT__Decimal3 |-> ("2" :> [tok |-> "_DECIMAL32", cols |-> 10]),
    GOT__Decimal6 |-> ("4" :> [tok |-> "_DECIMAL64", cols |-> 10]),
    GOT__Generi |-> ("c" :> [tok |-> "_GENERIC", cols |-> 8]),
    GOT__Imaginar |-> ("y" :> [tok |-> "_IMAGINARY", cols |-> 10]),
    GOT__Noretur |-> ("n" :> [tok |-> "_NORETURN", cols |-> 9]),
    GOT__Static_asser |-> ("t" :> [tok |-> "_STATIC_ASSERT", cols |-> 14]),
    GOT__Thread_loca |-> ("l" :> [tok |-> "_THREAD_LOCAL", cols |-> 13]),
    GOT_aligna |-> ("s" :> [tok |-> "ALIGNAS", cols |-> 7]),
    GOT_aligno |-> ("f" :> [tok |-> "ALIGNOF", cols |-> 7]),
    GOT_aut |-> ("o" :> [tok |-> "AUTO", cols |-> 4]),
    GOT_boo |-> ("l" :> [tok |-> "BOOL", cols |-> 4]),
    GOT_brea |-> ("k" :> [tok |-> "BREAK", cols |-> 5]),
    GOT_cas |-> ("e" :> [tok |-> "CASE", cols |-> 4]),
    GOT_cha |-> ("r" :> [tok |-> "CHAR", cols |-> 4]),
    GOT_constexp |-> ("r" :> [tok |-> "CONSTEXPR", cols |-> 9]),
    GOT_continu |-> ("e" :> [tok |-> "CONTINUE", cols |-> 8]),
    GOT_defaul |-> ("t" :> [tok |-> "DEFAULT", cols |-> 7]),
    GOT_doubl |-> ("e" :> [tok |-> "DOUBLE", cols |-> 6]),
    GOT_els |-> ("e" :> [tok |-> "ELSE", cols |-> 4]),
    GOT_enu |-> ("m" :> [tok |-> "ENUM", cols |-> 4]),
    GOT_exter |-> ("n" :> [tok |-> "EXTERN", cols |-> 6]),
    GOT_fals |-> ("e" :> [tok |-> "FALSE", cols |-> 5]),
    GOT_floa |-> ("t" :> [tok |-> "FLOAT", cols |-> 5]),
    GOT_fo |-> ("r" :> [tok |-> "FOR", cols |-> 3]),
    GOT_got |-> ("o" :> [tok |-> "GOTO", cols |-> 4]),
    GOT_i |-> ("f" :> [tok |-> "IF", cols |-> 2]),
    GOT_in |-> ("t" :> [tok |-> "INT", cols |-> 3]),
    GOT_inlin |-> ("e" :> [tok |-> "INLINE", cols |-> 6]),
    GOT_lon |-> ("g" :> [tok |-> "LONG", cols |-> 4]),
    GOT_nullpt |-> ("r" :> [tok |-> "NULLPTR", cols |-> 7]),
    GOT_registe |-> ("r" :> [tok |-> "REGISTER", cols |-> 8]),
    GOT_restric |-> ("t" :> [tok |-> "RESTRICT", cols |-> 8]),
    GOT_retur |-> ("n" :> [tok |-> "RETURN", cols |-> 6]),
    GOT_shor |-> ("t" :> [tok |-> "SHORT", cols |-> 5]),
    GOT_signe |-> ("d" :> [tok |-> "SIGNED", cols |-> 6]),
    GOT_sizeo |-> ("f" :> [tok |-> "SIZEOF", cols |-> 6]),
    GOT_static_asser |-> ("t" :> [tok |-> "STATIC_ASSERT", cols |-> 13]),
    GOT_struc |-> ("t" :> [tok |-> "STRUCT", cols |-> 6]),
    GOT_switc |-> ("h" :> [tok |-> "SWITCH", cols |-> 6]),
    GOT_thread_loca |-> ("l" :> [tok |-> "THREAD_LOCAL", cols |-> 12]),
    GOT_tru |-> ("e" :> [tok |-> "TRUE", cols |-> 4]),
    GOT_typede |-> ("f" :> [tok |-> "TYPEDEF", cols |-> 7]),
    GOT_typeof_unqua |-> ("l" :> [tok |-> "TYPEOF_UNQUAL", cols |-> 13]),
    GOT_unio |-> ("n" :> [tok |-> "UNION", cols |-> 5]),
    GOT_unsigne |-> ("d" :> [tok |-> "UNSIGNED", cols |-> 8]),
    GOT_voi |-> ("d" :> [tok |-> "VOID", cols |-> 4]),
    GOT_volatil |-> ("e" :> [tok |-> "VOLATILE", cols |-> 8]),
    GOT_whil |-> ("e" :> [tok |-> "WHILE", cols |-> 5])
  ]

\* Edges that complete a keyword which is itself a prefix of a longer keyword:
\* `if (sr_->peek() == <ext>) advancest(<extto>); else if (is_ident_cont(sr_->peek()))
\* nextst(GOT_IDENT); else r(Token::<tok>, <cols>);`
TrieKwExt ==
  [
    GOT_cons |-> ("t" :> [ext |-> "e", extto |-> "GOT_conste", tok |-> "CONST", cols |-> 5]),
    GOT_d |-> ("o" :> [ext |-> "u", extto |-> "GOT_dou", tok |-> "DO", cols |-> 2]),
    GOT_stati |-> ("c" :> [ext |-> "_", extto |-> "GOT_static_", tok |-> "STATIC", cols |-> 6]),
    GOT_typeo |-> ("f" :> [ext |-> "_", extto |-> "GOT_typeof_", tok |-> "TYPEOF", cols |-> 6])
  ]

----------------------------------------------------------------------------
\* Lexer::scan_token: the keyword trie.

TrieStates == DOMAIN TrieNext

\* An edge that completes a keyword.
KwEdge_NoCheck(q, e) == r(sr_peek(q), e.tok, e.cols)

KwEdge(q, e) ==
  LET p == sr_peek(q) IN
  IF is_ident_cont(p.pk) THEN nextst(p, "GOT_IDENT") ELSE r(p, e.tok, e.cols)

\* An edge that completes a keyword which a longer keyword extends.
KwExtEdge(q, e) ==
  LET p == sr_peek(q) IN
  IF p.pk = e.ext THEN advancest(p, e.extto)
  ELSE LET p2 == sr_peek(p) IN
       IF is_ident_cont(p2.pk) THEN nextst(p2, "GOT_IDENT")
       ELSE r(p2, e.tok, e.cols)

\* A trie state that rejects a character it has no edge for.
StTrie_NoFallThrough(q) ==
  CASE q.c \in DOMAIN TrieNext[q.st] -> nextst(q, TrieNext[q.st][q.c])
    [] q.st \in DOMAIN TrieKw /\ q.c \in DOMAIN TrieKw[q.st] ->
         KwEdge(q, TrieKw[q.st][q.c])
    [] q.st \in DOMAIN TrieKwExt /\ q.c \in DOMAIN TrieKwExt[q.st] ->
         KwExtEdge(q, TrieKwExt[q.st][q.c])
    [] OTHER -> rinvalid(q)

StTrie(q) ==
  CASE q.c \in DOMAIN TrieNext[q.st] -> nextst(q, TrieNext[q.st][q.c])
    [] q.st \in DOMAIN TrieKw /\ q.c \in DOMAIN TrieKw[q.st] ->
         KwEdge(q, TrieKw[q.st][q.c])
    [] q.st \in DOMAIN TrieKwExt /\ q.c \in DOMAIN TrieKwExt[q.st] ->
         KwExtEdge(q, TrieKwExt[q.st][q.c])
    [] OTHER -> holdst(q, "GOT_IDENT")

\* case GOT_u: union, unsigned, and the encoding prefixes u and u8.
StU(q) ==
  LET p == sr_peek(q) IN
  CASE p.c = "n" -> nextst(p, "GOT_un")
    [] p.c = "8" -> IF p.pk = SQ THEN advancest(p, "GOT_CHAR_CONST_START")
                    ELSE IF p.pk = DQ THEN advancest(p, "GOT_STRING_LIT_START")
                    ELSE nextst(p, "GOT_IDENT")
    [] p.c = SQ -> nextst(p, "GOT_CHAR_CONST_START")
    [] p.c = DQ -> nextst(p, "GOT_STRING_LIT_START")
    [] OTHER -> holdst(p, "GOT_IDENT")

----------------------------------------------------------------------------
\* Lexer::scan_token: numeric literals.

StIntLiteral(q) ==
  LET p == sr_peek(q) IN
  IF isdigit(p.c) /\ isdigit(p.pk) THEN p
  ELSE IF isdigit(p.c) THEN
    IF is_int_suffix_start(p.pk) THEN nextst(p, "GOT_INT_SUFFIX_START")
    ELSE IF p.pk \in {"e", "E"} THEN advancest(p, "GOT_FLOAT_CONST_e")
    ELSE IF p.pk = "." THEN advancest(p, "GOT_FLOAT_CONST_DOT")
    ELSE IF p.pk = SQ THEN advance(p)
    ELSE r(p, "INTEGER_LIT", Len(p.lex))
  ELSE IF is_int_suffix_start(p.c) THEN holdst(p, "GOT_INT_SUFFIX_START")
  ELSE IF p.c \in {"e", "E"} THEN nextst(p, "GOT_FLOAT_CONST_e")
  ELSE IF p.c = "." THEN nextst(p, "GOT_FLOAT_CONST_DOT")
  ELSE IF p.c = SQ THEN p
  ELSE LET b == backup(p, p.c) IN r(b, "INTEGER_LIT", Len(b.lex))

StOctLiteral(q) ==
  LET p == sr_peek(q) IN
  IF p.c = SQ \/ (isoct(p.c) /\ isoct(p.pk)) THEN p
  ELSE IF isoct(p.c) THEN
    IF is_int_suffix_start(p.pk) THEN nextst(p, "GOT_INT_SUFFIX_START")
    ELSE IF p.pk \in {"e", "E"} THEN advancest(p, "GOT_FLOAT_CONST_e")
    ELSE IF p.pk = "." THEN advancest(p, "GOT_FLOAT_CONST_DOT")
    ELSE IF p.pk = SQ THEN advance(p)
    ELSE IF isdigit(p.pk) THEN nextst(p, "GOT_INT_LITERAL")
    ELSE r(p, "INTEGER_LIT", Len(p.lex))
  ELSE IF is_int_suffix_start(p.c) THEN holdst(p, "GOT_INT_SUFFIX_START")
  ELSE IF p.c \in {"e", "E"} THEN nextst(p, "GOT_FLOAT_CONST_e")
  ELSE IF p.c = "." THEN nextst(p, "GOT_FLOAT_CONST_DOT")
  ELSE LET b == backup(p, p.c) IN r(b, "INTEGER_LIT", Len(b.lex))

\* The same without `backup(c)`.
ErrBackup_NoBackup(q, msg) == rinvalid(print_error(q, msg))

\* `print_error(...); backup(c); rinvalid();`
ErrBackup(q, msg) == rinvalid(backup(print_error(q, msg), q.c))

\* The same without the diagnostic.
Err_Silent(q, msg) == rinvalid(q)

\* `print_error(...); rinvalid();`
Err(q, msg) == rinvalid(print_error(q, msg))

\* `backup(c); r(tkn, lex.length());`
BackupR(q, tkn) == LET b == backup(q, q.c) IN r(b, tkn, Len(b.lex))

St0x(q) ==
  IF isxdigit(q.c) THEN holdst(q, "GOT_HEX_LITERAL")
  ELSE IF q.c = "." THEN nextst(q, "GOT_0x_DOT")
  ELSE ErrBackup(q, "Hexadecimal prefix must be followed by a hexadecimal digit.")

St0xDot(q) ==
  IF isxdigit(q.c) THEN nextst(q, "GOT_HEX_CONST_DOT_XDIGIT")
  ELSE ErrBackup(q, "Missing digits in hexadecimal constant.")

StHexLiteral(q) ==
  LET p == sr_peek(q) IN
  IF isxdigit(p.c) /\ isxdigit(p.pk) THEN p
  ELSE IF isxdigit(p.c) THEN
    IF is_int_suffix_start(p.pk) THEN nextst(p, "GOT_INT_SUFFIX_START")
    ELSE IF p.pk = "." THEN advancest(p, "GOT_HEX_CONST_DOT")
    ELSE IF p.pk \in {"p", "P"} THEN advancest(p, "GOT_HEX_CONST_p")
    ELSE IF p.pk = SQ THEN advance(p)
    ELSE r(p, "INTEGER_LIT", Len(p.lex))
  ELSE IF is_int_suffix_start(p.c) THEN holdst(p, "GOT_INT_SUFFIX_START")
  ELSE IF p.c = "." THEN nextst(p, "GOT_HEX_CONST_DOT")
  ELSE IF p.c \in {"p", "P"} THEN nextst(p, "GOT_HEX_CONST_p")
  ELSE IF p.c = SQ THEN p
  ELSE BackupR(p, "INTEGER_LIT")

StBinConstStart(q) ==
  IF q.c \in {"0", "1"} THEN nextst(q, "GOT_BIN_CONST_CONT")
  ELSE ErrBackup(q, "Binary constant must begin with a 0 or 1.")

\* GOT_BIN_CONST_CONT that takes no apostrophe.
StBinConstCont_NoSeparator(q) ==
  IF is_int_suffix_start(q.c) THEN holdst(q, "GOT_INT_SUFFIX_START")
  ELSE IF q.c \in {"0", "1"} THEN q
  ELSE BackupR(q, "INTEGER_LIT")

StBinConstCont(q) ==
  IF is_int_suffix_start(q.c) THEN holdst(q, "GOT_INT_SUFFIX_START")
  ELSE IF q.c \in {"0", "1", SQ} THEN q
  ELSE BackupR(q, "INTEGER_LIT")

\* No default: any other character leaves the state as it is.
StIntSuffixStart(q) ==
  CASE q.c = "u" -> nextst(q, "GOT_INT_SUFFIX_u")
    [] q.c = "U" -> nextst(q, "GOT_INT_SUFFIX_U")
    [] q.c = "l" -> nextst(q, "GOT_INT_SUFFIX_l")
    [] q.c = "L" -> nextst(q, "GOT_INT_SUFFIX_L")
    [] q.c = "w" -> nextst(q, "GOT_INT_SUFFIX_w")
    [] q.c = "W" -> nextst(q, "GOT_INT_SUFFIX_W")
    [] OTHER -> q

\* GOT_INT_SUFFIX_u and GOT_INT_SUFFIX_U
StIntSuffixU(q, msg) ==
  LET p == sr_peek(q)
      ok(x) == r(x, "INTEGER_LIT", Len(x.lex))
  IN CASE p.c = "l" -> IF p.pk = "l" THEN ok(advance(p)) ELSE ok(p)
       [] p.c = "L" -> IF p.pk = "L" THEN ok(advance(p)) ELSE ok(p)
       [] p.c = "w" /\ p.pk = "b" -> ok(advance(p))
       [] p.c = "W" /\ p.pk = "B" -> ok(advance(p))
       [] OTHER -> Err(p, msg)

\* GOT_INT_SUFFIX_l (dbl = "l") and GOT_INT_SUFFIX_L (dbl = "L")
StIntSuffixL(q, dbl) ==
  LET p == sr_peek(q)
      ok(x) == r(x, "INTEGER_LIT", Len(x.lex))
  IN CASE p.c = dbl -> IF p.pk \in {"u", "U"} THEN ok(advance(p)) ELSE ok(p)
       [] p.c \in {"u", "U"} -> ok(p)
       [] OTHER -> BackupR(p, "INTEGER_LIT")

\* GOT_INT_SUFFIX_w (b = "b") and GOT_INT_SUFFIX_W (b = "B")
StIntSuffixW(q, b, msg) ==
  LET p == sr_peek(q) IN
  IF p.c = b
  THEN IF p.pk \in {"u", "U"}
       THEN LET a == advance(p) IN r(a, "INTEGER_LIT", Len(a.lex))
       ELSE r(p, "INTEGER_LIT", Len(p.lex))
  ELSE Err(p, msg)

----------------------------------------------------------------------------
\* Lexer::scan_token: floating constants.

MsgExp == "Floating point constant missing exponent digit(s)."
MsgHexExp == "Hexadecimal floating-point constant missing exponent field."

StFloatConstDot(q) ==
  IF isdigit(q.c) THEN nextst(q, "GOT_FLOAT_CONST_DOT_DIGIT")
  ELSE IF q.c \in {"e", "E"} THEN nextst(q, "GOT_FLOAT_CONST_e")
  \* strchr("fFlLdD", c)
  ELSE IF q.c \in {"f", "F", "l", "L", "d", "D", NUL}
       THEN holdst(q, "GOT_FLOAT_CONST_e_SIGN_DIG")
  ELSE BackupR(q, "FLOAT_LIT")

StFloatConstDotDigit(q) ==
  CASE q.c \in {"e", "E"} -> nextst(q, "GOT_FLOAT_CONST_e")
    [] q.c \in {"f", "F", "l", "L", "d", "D"} -> holdst(q, "GOT_FLOAT_CONST_e_SIGN_DIG")
    [] OTHER -> IF isdigit(q.c) THEN q ELSE BackupR(q, "FLOAT_LIT")

\* GOT_FLOAT_CONST_e and GOT_HEX_CONST_p
StExp(q, sign, dig) ==
  CASE q.c \in {"-", "+"} -> nextst(q, sign)
    [] OTHER -> IF isdigit(q.c) THEN nextst(q, dig) ELSE ErrBackup(q, MsgExp)

\* The state behind the sign taking any character for a digit.
StExpSign_AnyChar(q, dig) == nextst(q, dig)

\* GOT_FLOAT_CONST_e_SIGN and GOT_HEX_CONST_p_SIGN
StExpSign(q, dig) ==
  IF isdigit(q.c) THEN nextst(q, dig) ELSE ErrBackup(q, MsgExp)

StFloatConstESignDig(q) ==
  CASE q.c \in {"f", "F", "l", "L"} -> r(q, "FLOAT_LIT", Len(q.lex))
    [] q.c = "d" -> nextst(q, "GOT_FLOAT_CONST_e_SUFd")
    [] q.c = "D" -> nextst(q, "GOT_FLOAT_CONST_e_SUFD")
    [] q.c = SQ -> q
    [] OTHER -> IF isdigit(q.c) THEN q ELSE BackupR(q, "FLOAT_LIT")

\* GOT_FLOAT_CONST_e_SUFd / _SUFD taking no second suffix letter.
StFloatSuf_Never(q, ok, msg) == rinvalid(backup(print_error(q, msg), q.c))

\* GOT_FLOAT_CONST_e_SUFd and GOT_FLOAT_CONST_e_SUFD
StFloatSuf(q, ok, msg) ==
  IF q.c \in ok THEN r(q, "FLOAT_LIT", Len(q.lex)) ELSE ErrBackup(q, msg)

StHexConstDot(q) ==
  IF isxdigit(q.c) THEN nextst(q, "GOT_HEX_CONST_DOT_XDIGIT")
  ELSE IF q.c \in {"p", "P"} THEN nextst(q, "GOT_HEX_CONST_p")
  ELSE ErrBackup(q, MsgHexExp)

StHexConstDotXdigit(q) ==
  CASE q.c \in {"p", "P"} -> nextst(q, "GOT_HEX_CONST_p")
    [] q.c = SQ -> q
    [] OTHER -> IF isxdigit(q.c) THEN q ELSE ErrBackup(q, MsgHexExp)

StHexConstPSignDig(q) ==
  CASE q.c \in {"f", "F", "l", "L"} -> r(q, "FLOAT_LIT", Len(q.lex))
    [] OTHER -> IF isdigit(q.c) THEN q ELSE BackupR(q, "FLOAT_LIT")

----------------------------------------------------------------------------
\* Lexer::scan_token: character constants, string literals, escape sequences.

MsgUntermChar == "Unterminated character constant detected."

\* GOT_CHAR_CONST_START without the case for a second quote.
StCharConstStart_NoEmptyCase(q) ==
  CASE q.c = NL -> ErrBackup(q, MsgUntermChar)
    [] q.c = BS -> pushst(nextst(q, "GOT_CHAR_CONST_CONT"), "GOT_ESCAPE_SEQUENCE")
    [] OTHER -> nextst(q, "GOT_CHAR_CONST_CONT")

StCharConstStart(q) ==
  CASE q.c = SQ -> Err(q, "Character constant cannot be empty.")
    [] q.c = NL -> ErrBackup(q, MsgUntermChar)
    [] q.c = BS -> pushst(nextst(q, "GOT_CHAR_CONST_CONT"), "GOT_ESCAPE_SEQUENCE")
    [] OTHER -> nextst(q, "GOT_CHAR_CONST_CONT")

StCharConstCont(q) ==
  CASE q.c = SQ -> r(q, "INTEGER_LIT", Len(q.lex))
    [] q.c \in {EOFc, NL} -> ErrBackup(q, MsgUntermChar)
    [] q.c = BS -> pushst(q, "GOT_ESCAPE_SEQUENCE")
    [] OTHER -> q

StStringLitStart(q) ==
  CASE q.c = DQ -> r(q, "STRING_LIT", Len(q.lex))
    [] q.c \in {EOFc, NL} -> ErrBackup(q, "Unterminated string literal detected.")
    [] q.c = BS -> pushst(q, "GOT_ESCAPE_SEQUENCE")
    [] OTHER -> q

StEscapeSequence(q) ==
  IF is_simple_escape_sequence(q.c) THEN popst(q)
  ELSE IF isoct(q.c) THEN nextst(q, "GOT_ESCAPE_SEQUENCE_BS_OCT1")
  ELSE IF q.c = "x" THEN nextst(q, "GOT_ESCAPE_SEQUENCE_BS_x")
  ELSE IF q.c = "u" THEN nextst(q, "GOT_ESCAPE_SEQUENCE_BS_u0")
  ELSE IF q.c = "U" THEN nextst(q, "GOT_ESCAPE_SEQUENCE_BS_U0")
  ELSE Err(q, "Invalid escape sequence.")

\* The states \u and \U walk through, one hex digit each; "" stands for popst().
UcnNext ==
  [GOT_ESCAPE_SEQUENCE_BS_u0 |-> "GOT_ESCAPE_SEQUENCE_BS_u1",
   GOT_ESCAPE_SEQUENCE_BS_u1 |-> "GOT_ESCAPE_SEQUENCE_BS_u2",
   GOT_ESCAPE_SEQUENCE_BS_u2 |-> "GOT_ESCAPE_SEQUENCE_BS_u3",
   GOT_ESCAPE_SEQUENCE_BS_u3 |-> "",
   GOT_ESCAPE_SEQUENCE_BS_U0 |-> "GOT_ESCAPE_SEQUENCE_BS_U1",
   GOT_ESCAPE_SEQUENCE_BS_U1 |-> "GOT_ESCAPE_SEQUENCE_BS_U2",
   GOT_ESCAPE_SEQUENCE_BS_U2 |-> "GOT_ESCAPE_SEQUENCE_BS_U3",
   GOT_ESCAPE_SEQUENCE_BS_U3 |-> "GOT_ESCAPE_SEQUENCE_BS_U4",
   GOT_ESCAPE_SEQUENCE_BS_U4 |-> "GOT_ESCAPE_SEQUENCE_BS_U5",
   GOT_ESCAPE_SEQUENCE_BS_U5 |-> "GOT_ESCAPE_SEQUENCE_BS_U6",
   GOT_ESCAPE_SEQUENCE_BS_U6 |-> "GOT_ESCAPE_SEQUENCE_BS_U7",
   GOT_ESCAPE_SEQUENCE_BS_U7 |-> ""]

UcnLower == {"GOT_ESCAPE_SEQUENCE_BS_u0", "GOT_ESCAPE_SEQUENCE_BS_u1",
             "GOT_ESCAPE_SEQUENCE_BS_u2", "GOT_ESCAPE_SEQUENCE_BS_u3"}

StUcn(q) ==
  IF isxdigit(q.c)
  THEN IF UcnNext[q.st] = "" THEN popst(q) ELSE nextst(q, UcnNext[q.st])
  ELSE Err(q, IF q.st \in UcnLower
              THEN "universal character name must have the form \\uhhhh."
              ELSE "Universal character name must have the form \\Uhhhhhhhh.")

StEscOct1(q) ==
  IF isoct(q.c) THEN nextst(q, "GOT_ESCAPE_SEQUENCE_BS_OCT2") ELSE pop_holdst(q)

StEscOct2(q) == IF isoct(q.c) THEN popst(q) ELSE pop_holdst(q)

\* GOT_ESCAPE_SEQUENCE_BS_x that takes any character for a hex digit.
StEscX_AnyChar(q) == nextst(q, "GOT_ESCAPE_SEQUENCE_BS_x_XDIGIT")

StEscX(q) ==
  IF isxdigit(q.c) THEN nextst(q, "GOT_ESCAPE_SEQUENCE_BS_x_XDIGIT")
  ELSE Err(q, "Missing digits in hexadecimal escape sequence.")

StEscXXdigit(q) == IF isxdigit(q.c) THEN q ELSE pop_holdst(q)

----------------------------------------------------------------------------
\* Lexer::scan_token: the loop.

NumericStates ==
  {"GOT_INT_LITERAL", "GOT_OCT_LITERAL", "GOT_0x", "GOT_0x_DOT", "GOT_HEX_LITERAL",
   "GOT_BIN_CONST_START", "GOT_BIN_CONST_CONT"}

\* switch (st)
Switch(q) ==
  CASE q.st = "THE_END" -> r(q, "END", 0)
    [] q.st = "START" -> StStart(q)
    [] q.st = "GOT_GT" -> StShift(q, ">", "GREATER_OR_EQUAL", "RSHIFT_ASSIGN", "RSHIFT", "GREATER")
    [] q.st = "GOT_LT" -> StShift(q, "<", "LESS_OR_EQUAL", "LSHIFT_ASSIGN", "LSHIFT", "LESS")
    [] q.st = "GOT_IDENT" -> StIdent(q)
    [] q.st = "GOT_u" -> StU(q)
    [] q.st \in TrieStates -> StTrie(q)
    [] q.st = "GOT_INT_LITERAL" -> StIntLiteral(q)
    [] q.st = "GOT_OCT_LITERAL" -> StOctLiteral(q)
    [] q.st = "GOT_0x" -> St0x(q)
    [] q.st = "GOT_0x_DOT" -> St0xDot(q)
    [] q.st = "GOT_HEX_LITERAL" -> StHexLiteral(q)
    [] q.st = "GOT_CHAR_CONST_START" -> StCharConstStart(q)
    [] q.st = "GOT_CHAR_CONST_CONT" -> StCharConstCont(q)
    [] q.st = "GOT_FLOAT_CONST_DOT" -> StFloatConstDot(q)
    [] q.st = "GOT_FLOAT_CONST_DOT_DIGIT" -> StFloatConstDotDigit(q)
    [] q.st = "GOT_FLOAT_CONST_e" ->
         StExp(q, "GOT_FLOAT_CONST_e_SIGN", "GOT_FLOAT_CONST_e_SIGN_DIG")
    [] q.st = "GOT_FLOAT_CONST_e_SIGN" -> StExpSign(q, "GOT_FLOAT_CONST_e_SIGN_DIG")
    [] q.st = "GOT_FLOAT_CONST_e_SIGN_DIG" -> StFloatConstESignDig(q)
    [] q.st = "GOT_FLOAT_CONST_e_SUFd" ->
         StFloatSuf(q, {"f", "d", "l"},
                    "Valid floating point constant suffixes are {df dd dl}.")
    [] q.st = "GOT_FLOAT_CONST_e_SUFD" ->
         StFloatSuf(q, {"F", "D", "L"},
                    "Valid floating point constant suffixes are {DF DD DL}.")
    [] q.st = "GOT_HEX_CONST_DOT" -> StHexConstDot(q)
    [] q.st = "GOT_HEX_CONST_DOT_XDIGIT" -> StHexConstDotXdigit(q)
    [] q.st = "GOT_HEX_CONST_p" ->
         StExp(q, "GOT_HEX_CONST_p_SIGN", "GOT_HEX_CONST_p_SIGN_DIG")
    [] q.st = "GOT_HEX_CONST_p_SIGN_DIG" -> StHexConstPSignDig(q)
    [] q.st = "GOT_HEX_CONST_p_SIGN" -> StExpSign(q, "GOT_HEX_CONST_p_SIGN_DIG")
    [] q.st = "GOT_BIN_CONST_START" -> StBinConstStart(q)
    [] q.st = "GOT_BIN_CONST_CONT" -> StBinConstCont(q)
    [] q.st = "GOT_INT_SUFFIX_START" -> StIntSuffixStart(q)
    [] q.st = "GOT_INT_SUFFIX_u" -> StIntSuffixU(q, "Invalid integer suffix after u.")
    [] q.st = "GOT_INT_SUFFIX_U" -> StIntSuffixU(q, "Invalid integer suffix after U.")
    [] q.st = "GOT_INT_SUFFIX_l" -> StIntSuffixL(q, "l")
    [] q.st = "GOT_INT_SUFFIX_L" -> StIntSuffixL(q, "L")
    [] q.st = "GOT_INT_SUFFIX_w" -> StIntSuffixW(q, "b", "Invalid integer suffix after w.")
    [] q.st = "GOT_INT_SUFFIX_W" -> StIntSuffixW(q, "B", "Invalid integer suffix after W.")
    [] q.st = "GOT_STRING_LIT_START" -> StStringLitStart(q)
    [] q.st = "GOT_ESCAPE_SEQUENCE" -> StEscapeSequence(q)
    [] q.st = "GOT_ESCAPE_SEQUENCE_BS_OCT1" -> StEscOct1(q)
    [] q.st = "GOT_ESCAPE_SEQUENCE_BS_OCT2" -> StEscOct2(q)
    [] q.st = "GOT_ESCAPE_SEQUENCE_BS_x" -> StEscX(q)
    [] q.st = "GOT_ESCAPE_SEQUENCE_BS_x_XDIGIT" -> StEscXXdigit(q)
    [] q.st \in DOMAIN UcnNext -> StUcn(q)
    [] OTHER -> rinvalid(q)

\* The head of the while loop: take the held character or read the next one.
Fetch(q) ==
  IF q.hold THEN [q EXCEPT !.hold = FALSE]
  ELSE LET g == ReadC(q) IN
       IF g.c # EOFc THEN [g EXCEPT !.lex = Append(@, g.c)] ELSE g

\* One iteration of `while (true)`.
Step(q) == Switch(Fetch(q))

\* The loop runs until a state returns.  An iteration that changes nothing
\* (same state, same character, stream at its end) repeats forever.
RECURSIVE Run(_)
\* q: the configuration before an iteration, n: after it.
Iterate(q, n) == IF n = q THEN [q EXCEPT !.hung = TRUE] ELSE Run(n)

Run(q) == IF q.done THEN q ELSE Iterate(q, Step(q))

\* The configurations the loop goes through from q to its return, in order:
\* the locals before each iteration, then those at the return.
RECURSIVE TraceOf(_)
TraceNext(q, n) == IF n = q THEN <<q>> ELSE <<q>> \o TraceOf(n)

TraceOf(q) == IF q.done THEN <<q>> ELSE TraceNext(q, Step(q))

\* scan_token whose `lex` starts as the text of the lexeme scanned before.
ScanStart_KeepsText(L) ==
  [input |-> L.input, pos |-> L.pos, eofbit |-> L.eofbit, failbit |-> L.failbit,
   badbit |-> L.badbit, row |-> L.row, col |-> L.col,
   st |-> "START", states |-> <<"START">>, c |-> EOFc, hold |-> TRUE,
   lex |-> IF L.lookahead = <<>> THEN <<>> ELSE L.lookahead[Len(L.lookahead)].lexeme,
   got |-> EOFc, pk |-> EOFc,
   ret |-> NoLexeme, done |-> FALSE, hung |-> FALSE, diags |-> <<>>, io |-> <<>>]

\* The locals of scan_token on entry, over the Lexer L.
ScanStart(L) ==
  [input |-> L.input, pos |-> L.pos, eofbit |-> L.eofbit, failbit |-> L.failbit,
   badbit |-> L.badbit, row |-> L.row, col |-> L.col,
   st |-> "START", states |-> <<"START">>, c |-> EOFc, hold |-> TRUE, lex |-> <<>>,
   got |-> EOFc, pk |-> EOFc,
   ret |-> NoLexeme, done |-> FALSE, hung |-> FALSE, diags |-> <<>>, io |-> <<>>]

\* eat_whitespace(); if (c != EOF) lex.push_back(c);
ScanEntry(q) ==
  LET w == eat_whitespace(q) IN
  IF w.c # EOFc THEN [w EXCEPT !.lex = Append(@, w.c)] ELSE w

scan_token(L) == Run(ScanEntry(ScanStart(L)))

----------------------------------------------------------------------------
\* The Lexer facade.  A call yields the Lexer after the call (L), what the call
\* returned (ret), and what it did: whether it never returned (hung), the number
\* of scans, the diagnostics written, the SourceReader calls.

\* The Lexer after a scan that ended in configuration q, with lookahead la.
After(q, la) ==
  [input |-> q.input, pos |-> q.pos, eofbit |-> q.eofbit, failbit |-> q.failbit,
   badbit |-> q.badbit, row |-> q.row, col |-> q.col, lookahead |-> la]

NoScan(L, rv) ==
  [L |-> L, ret |-> rv, hung |-> FALSE, nscans |-> 0, diags |-> <<>>, io |-> <<>>]

\* The call scanned once more, ending in q, and pushes the lexeme on queue la.
Scanned(R, q, la) ==
  [L |-> After(q, IF q.hung THEN la ELSE Append(la, q.ret)),
   ret |-> R.ret, hung |-> q.hung, nscans |-> R.nscans + 1,
   diags |-> R.diags \o q.diags, io |-> R.io \o q.io]

\* The member initialisers of the constructor, over a stream holding s:
\* sr_(std::move(sr)), row_(1), col_(1), and an empty queue.
Members(s) ==
  [input |-> s, pos |-> 0, eofbit |-> FALSE, failbit |-> FALSE,
   badbit |-> FALSE, row |-> 1, col |-> 1, lookahead |-> <<>>]

\* Lexer::Lexer(std::unique_ptr<SourceReader> &&sr)
Lexer(s) == Scanned(NoScan(Members(s), NoLexeme), scan_token(Members(s)), <<>>)

\* peek() that also removes the lexeme it returns.
peek_Pop(L) == NoScan([L EXCEPT !.lookahead = Tail(@)], Head(L.lookahead))

\* Lexer::peek
peek(L) == NoScan(L, Head(L.lookahead))

\* eat() without `if (lookahead_.empty())`: it scans on every call.
eat_AlwaysScan(L) ==
  LET l == Head(L.lookahead)
      P == [L EXCEPT !.lookahead = Tail(@)]
  IN Scanned(NoScan(P, l), scan_token(P), P.lookahead)

\* eat() without the refill.
eat_NoRefill(L) == NoScan([L EXCEPT !.lookahead = Tail(@)], Head(L.lookahead))

\* eat() taking the lexeme scanned last, back(), instead of front().
eat_Lifo(L) ==
  LET l == L.lookahead[Len(L.lookahead)]
      P == [L EXCEPT !.lookahead = SubSeq(@, 1, Len(@) - 1)]
  IN IF P.lookahead = <<>>
     THEN Scanned(NoScan(P, l), scan_token(P), P.lookahead)
     ELSE NoScan(P, l)

\* Lexer::eat
eat(L) ==
  LET l == Head(L.lookahead)
      P == [L EXCEPT !.lookahead = Tail(@)]
  IN IF P.lookahead = <<>>
     THEN Scanned(NoScan(P, l), scan_token(P), P.lookahead)
     ELSE NoScan(P, l)

back(s) == s[Len(s)]

RECURSIVE PreloadLoop(_, _, _)
\* S: the call after the push of iteration i.
PreloadPushed(S, i, n) ==
  IF S.hung \/ back(S.L.lookahead).token = "END" THEN S
  ELSE PreloadLoop(S, i + 1, n)

PreloadLoop(R, i, n) ==
  IF i >= n THEN R
  ELSE PreloadPushed(Scanned(R, scan_token(R.L), R.L.lookahead), i, n)

\* preload() without the test of back() on entry.
preload_NoEndCheck(L, n) == PreloadLoop(NoScan(L, NoLexeme), 0, n)

\* Lexer::preload
preload(L, n) ==
  IF back(L.lookahead).token = "END" THEN NoScan(L, NoLexeme)
  ELSE PreloadLoop(NoScan(L, NoLexeme), 0, n)

\* std::string(const char *): the bytes up to the first NUL.
RECURSIVE CStr(_)
CStr(s) == IF s = <<>> \/ Head(s) = NUL THEN <<>> ELSE <<Head(s)>> \o CStr(Tail(s))

RECURSIVE ScanTokensLoop(_, _)
\* v.push_back(lexer.eat()), E being the call of eat
ScanTokensPush(E, v) == ScanTokensLoop(E, IF E.hung THEN v ELSE Append(v, E.ret))

ScanTokensLoop(R, v) ==
  IF R.hung THEN [v |-> v, hung |-> TRUE]
  ELSE IF peek(R.L).ret.token # "END"
       THEN ScanTokensPush(eat(R.L), v)
       ELSE [v |-> Append(v, peek(R.L).ret), hung |-> FALSE]

\* scan_tokens without `v.push_back(lexer.peek())`.
scan_tokens_NoEnd(s) ==
  [ScanTokensLoop(Lexer(CStr(s)), <<>>) EXCEPT !.v = SubSeq(@, 1, Len(@) - 1)]

\* scan_tokens that scans with the caller's stream, cursor and queue instead of
\* a Lexer of its own.
scan_tokens_OnCaller(s) ==
  IF hung THEN [v |-> <<>>, hung |-> TRUE]
  ELSE ScanTokensLoop(NoScan([input |-> input, pos |-> pos, eofbit |-> eofbit,
                              failbit |-> failbit, badbit |-> badbit, row |-> row,
                              col |-> col, lookahead |-> lookahead], NoLexeme), <<>>)

\* scan_tokens(const char *s)
scan_tokens(s) == ScanTokensLoop(Lexer(CStr(s)), <<>>)

\* The reserved words, as spelled by the paths of the keyword trie.
keywords == {
  [tok |-> "_ALIGNAS", lex |-> <<"_", "A", "l", "i", "g", "n", "a", "s">>],
  [tok |-> "_ALIGNOF", lex |-> <<"_", "A", "l", "i", "g", "n", "o", "f">>],
  [tok |-> "_ATOMIC", lex |-> <<"_", "A", "t", "o", "m", "i", "c">>],
  [tok |-> "_BITINT", lex |-> <<"_", "B", "i", "t", "I", "n", "t">>],
  [tok |-> "_BOOL", lex |-> <<"_", "B", "o", "o", "l">>],
  [tok |-> "_COMPLEX", lex |-> <<"_", "C", "o", "m", "p", "l", "e", "x">>],
  [tok |-> "_DECIMAL128", lex |-> <<"_", "D", "e", "c", "i", "m", "a", "l", "1", "2", "8">>],
  [tok |-> "_DECIMAL32", lex |-> <<"_", "D", "e", "c", "i", "m", "a", "l", "3", "2">>],
  [tok |-> "_DECIMAL64", lex |-> <<"_", "D", "e", "c", "i", "m", "a", "l", "6", "4">>],
  [tok |-> "_GENERIC", lex |-> <<"_", "G", "e", "n", "e", "r", "i", "c">>],
  [tok |-> "_IMAGINARY", lex |-> <<"_", "I", "m", "a", "g", "i", "n", "a", "r", "y">>],
  [tok |-> "_NORETURN", lex |-> <<"_", "N", "o", "r", "e", "t", "u", "r", "n">>],
  [tok |-> "_STATIC_ASSERT", lex |-> <<"_", "S", "t", "a", "t", "i", "c", "_", "a", "s", "s", "e", "r", "t">>],
  [tok |-> "_THREAD_LOCAL", lex |-> <<"_", "T", "h", "r", "e", "a", "d", "_", "l", "o", "c", "a", "l">>],
  [tok |-> "ALIGNAS", lex |-> <<"a", "l", "i", "g", "n", "a", "s">>],
  [tok |-> "ALIGNOF", lex |-> <<"a", "l", "i", "g", "n", "o", "f">>],
  [tok |-> "AUTO", lex |-> <<"a", "u", "t", "o">>],
  [tok |-> "BOOL", lex |-> <<"b", "o", "o", "l">>],
  [tok |-> "BREAK", lex |-> <<"b", "r", "e", "a", "k">>],
  [tok |-> "CASE", lex |-> <<"c", "a", "s", "e">>],
  [tok |-> "CHAR", lex |-> <<"c", "h", "a", "r">>],
  [tok |-> "CONST", lex |-> <<"c", "o", "n", "s", "t">>],
  [tok |-> "CONSTEXPR", lex |-> <<"c", "o", "n", "s", "t", "e", "x", "p", "r">>],
  [tok |-> "CONTINUE", lex |-> <<"c", "o", "n", "t", "i", "n", "u", "e">>],
  [tok |-> "DO", lex |-> <<"d", "o">>],
  [tok |-> "DEFAULT", lex |-> <<"d", "e", "f", "a", "u", "l", "t">>],
  [tok |-> "DOUBLE", lex |-> <<"d", "o", "u", "b", "l", "e">>],
  [tok |-> "ELSE", lex |-> <<"e", "l", "s", "e">>],
  [tok |-> "ENUM", lex |-> <<"e", "n", "u", "m">>],
  [tok |-> "EXTERN", lex |-> <<"e", "x", "t", "e", "r", "n">>],
  [tok |-> "FALSE", lex |-> <<"f", "a", "l", "s", "e">>],
  [tok |-> "FLOAT", lex |-> <<"f", "l", "o", "a", "t">>],
  [tok |-> "FOR", lex |-> <<"f", "o", "r">>],
  [tok |-> "GOTO", lex |-> <<"g", "o", "t", "o">>],
  [tok |-> "IF", lex |-> <<"i", "f">>],
  [tok |-> "INT", lex |-> <<"i", "n", "t">>],
  [tok |-> "INLINE", lex |-> <<"i", "n", "l", "i", "n", "e">>],
  [tok |-> "LONG", lex |-> <<"l", "o", "n", "g">>],
  [tok |-> "NULLPTR", lex |-> <<"n", "u", "l", "l", "p", "t", "r">>],
  [tok |-> "REGISTER", lex |-> <<"r", "e", "g", "i", "s", "t", "e", "r">>],
  [tok |-> "RESTRICT", lex |-> <<"r", "e", "s", "t", "r", "i", "c", "t">>],
  [tok |-> "RETURN", lex |-> <<"r", "e", "t", "u", "r", "n">>],
  [tok |-> "SHORT", lex |-> <<"s", "h", "o", "r", "t">>],
  [tok |-> "SIGNED", lex |-> <<"s", "i", "g", "n", "e", "d">>],
  [tok |-> "SIZEOF", lex |-> <<"s", "i", "z", "e", "o", "f">>],
  [tok |-> "STATIC", lex |-> <<"s", "t", "a", "t", "i", "c">>],
  [tok |-> "STATIC_ASSERT", lex |-> <<"s", "t", "a", "t", "i", "c", "_", "a", "s", "s", "e", "r", "t">>],
  [tok |-> "STRUCT", lex |-> <<"s", "t", "r", "u", "c", "t">>],
  [tok |-> "SWITCH", lex |-> <<"s", "w", "i", "t", "c", "h">>],
  [tok |-> "THREAD_LOCAL", lex |-> <<"t", "h", "r", "e", "a", "d", "_", "l", "o", "c", "a", "l">>],
  [tok |-> "TRUE", lex |-> <<"t", "r", "u", "e">>],
  [tok |-> "TYPEDEF", lex |-> <<"t", "y", "p", "e", "d", "e", "f">>],
  [tok |-> "TYPEOF", lex |-> <<"t", "y", "p", "e", "o", "f">>],
  [tok |-> "TYPEOF_UNQUAL", lex |-> <<"t", "y", "p", "e", "o", "f", "_", "u", "n", "q", "u", "a", "l">>],
  [tok |-> "UNION", lex |-> <<"u", "n", "i", "o", "n">>],
  [tok |-> "UNSIGNED", lex |-> <<"u", "n", "s", "i", "g", "n", "e", "d">>],
  [tok |-> "VOID", lex |-> <<"v", "o", "i", "d">>],
  [tok |-> "VOLATILE", lex |-> <<"v", "o", "l", "a", "t", "i", "l", "e">>],
  [tok |-> "WHILE", lex |-> <<"w", "h", "i", "l", "e">>]
}

----------------------------------------------------------------------------
\* Bounds and inputs.

\* Longest input drawn from Alphabet.
MaxLen == 3
\* Longest tail appended to a reserved word.
MaxTail == 1
\* Number of eat() calls followed.
MaxEats == 5
\* Largest argument of preload().
MaxPreload == 2

Alphabet == {"a", "1", ";", "$", SP, NL, NUL, XFF}

SeqsUpTo(S, n) == UNION {[1..k -> S] : k \in 0..n}

Inputs == SeqsUpTo(Alphabet, MaxLen)

KwTailChars == {"z", "1", "_", "e", "u", SP, "(", XFF}

KwInputs == {k.lex \o t : k \in keywords, t \in SeqsUpTo(KwTailChars, MaxTail)}

KeywordTokens == {k.tok : k \in keywords}

----------------------------------------------------------------------------
\* The vectors of the token tests.

\* The operators[] and separators[] fixtures: token and spelling.
fixed_tokens == {
  [tok |-> "PLUS", lex |-> <<"+">>], [tok |-> "MINUS", lex |-> <<"-">>],
  [tok |-> "STAR", lex |-> <<"*">>], [tok |-> "DIV", lex |-> <<"/">>],
  [tok |-> "MOD", lex |-> <<"%">>], [tok |-> "INCR", lex |-> <<"+", "+">>],
  [tok |-> "DECR", lex |-> <<"-", "-">>], [tok |-> "EQUALS", lex |-> <<"=", "=">>],
  [tok |-> "NOTEQUALS", lex |-> <<"!", "=">>], [tok |-> "GREATER", lex |-> <<">">>],
  [tok |-> "LESS", lex |-> <<"<">>],
  [tok |-> "GREATER_OR_EQUAL", lex |-> <<">", "=">>],
  [tok |-> "LESS_OR_EQUAL", lex |-> <<"<", "=">>],
  [tok |-> "LOG_NOT", lex |-> <<"!">>], [tok |-> "LOG_AND", lex |-> <<"&", "&">>],
  [tok |-> "LOG_OR", lex |-> <<"|", "|">>], [tok |-> "BIT_NOT", lex |-> <<"~">>],
  [tok |-> "AMP", lex |-> <<"&">>], [tok |-> "BIT_OR", lex |-> <<"|">>],
  [tok |-> "BIT_XOR", lex |-> <<"^">>], [tok |-> "LSHIFT", lex |-> <<"<", "<">>],
  [tok |-> "RSHIFT", lex |-> <<">", ">">>], [tok |-> "ASSIGN", lex |-> <<"=">>],
  [tok |-> "ADD_ASSIGN", lex |-> <<"+", "=">>],
  [tok |-> "SUB_ASSIGN", lex |-> <<"-", "=">>],
  [tok |-> "MUL_ASSIGN", lex |-> <<"*", "=">>],
  [tok |-> "DIV_ASSIGN", lex |-> <<"/", "=">>],
  [tok |-> "MOD_ASSIGN", lex |-> <<"%", "=">>],
  [tok |-> "AND_ASSIGN", lex |-> <<"&", "=">>],
  [tok |-> "OR_ASSIGN", lex |-> <<"|", "=">>],
  [tok |-> "XOR_ASSIGN", lex |-> <<"^", "=">>],
  [tok |-> "LSHIFT_ASSIGN", lex |-> <<"<", "<", "=">>],
  [tok |-> "RSHIFT_ASSIGN", lex |-> <<">", ">", "=">>],
  [tok |-> "ARROW", lex |-> <<"-", ">">>], [tok |-> "DOT", lex |-> <<".">>],
  [tok |-> "ELLIPSIS", lex |-> <<".", ".", ".">>], [tok |-> "COMMA", lex |-> <<",">>],
  [tok |-> "QUESTION", lex |-> <<"?">>], [tok |-> "COLON", lex |-> <<":">>],
  [tok |-> "LPAREN", lex |-> <<"(">>], [tok |-> "RPAREN", lex |-> <<")">>],
  [tok |-> "LBRACE", lex |-> <<"{">>], [tok |-> "RBRACE", lex |-> <<"}">>],
  [tok |-> "LSQUARE", lex |-> <<"[">>], [tok |-> "RSQUARE", lex |-> <<"]">>],
  [tok |-> "SEMI", lex |-> <<";">>]
}

\* The character constants of the integer[] fixture.
char_constants == {
  <<SQ, "a", SQ>>, <<"u", SQ, "a", SQ>>, <<"u", "8", SQ, "a", SQ>>,
  <<"U", SQ, "a", SQ>>, <<"L", SQ, "a", SQ>>, <<SQ, BS, SQ, SQ>>, <<SQ, BS, DQ, SQ>>,
  <<SQ, BS, "?", SQ>>, <<SQ, BS, BS, SQ>>, <<SQ, BS, "a", SQ>>, <<SQ, BS, "b", SQ>>,
  <<SQ, BS, "f", SQ>>, <<SQ, BS, "n", SQ>>, <<SQ, BS, "r", SQ>>, <<SQ, BS, "t", SQ>>,
  <<SQ, BS, "v", SQ>>, <<"u", SQ, BS, "a", SQ>>, <<"u", "8", SQ, BS, "b", SQ>>,
  <<"U", SQ, BS, "f", SQ>>, <<"L", SQ, BS, "n", SQ>>, <<"u", SQ, BS, "r", SQ>>,
  <<"u", "8", SQ, BS, "t", SQ>>, <<"U", SQ, BS, "v", SQ>>, <<SQ, BS, "7", SQ>>,
  <<"u", SQ, BS, "7", "7", SQ>>, <<"U", SQ, BS, "7", "7", "7", SQ>>,
  <<"L", SQ, BS, "7", "7", "7", "a", SQ>>, <<SQ, BS, "x", "a", SQ>>,
  <<"u", SQ, BS, "x", "a", "b", SQ>>, <<"u", "8", SQ, BS, "x", "a", "b", "c", SQ>>,
  <<"U", SQ, BS, "x", "a", "b", "c", "d", SQ>>, <<SQ, SP, SQ>>,
  <<SQ, BS, "t", BS, "t", SQ>>
}

\* The suffixes of the integer[] fixture: none, and u, l, ll in every
\* order and case it lists.
IntSuffixes == {
  <<>>, <<"u">>, <<"u", "l">>, <<"u", "L">>, <<"u", "l", "l">>, <<"u", "L", "L">>,
  <<"U">>, <<"U", "l">>, <<"U", "L">>, <<"U", "l", "l">>, <<"U", "L", "L">>, <<"l">>,
  <<"l", "u">>, <<"l", "U">>, <<"L">>, <<"L", "u">>, <<"L", "U">>, <<"l", "l">>,
  <<"l", "l", "u">>, <<"l", "l", "U">>, <<"L", "L">>, <<"L", "L", "u">>,
  <<"L", "L", "U">>
}

\* The floats[] fixture.
floats == {
  <<"0", "e", "1">>, <<"0", "e", "-", "1">>, <<"0", "E", "+", "1">>,
  <<"0", "e", "-", "1", "f">>, <<"0", "E", "-", "1", "F">>,
  <<"0", "e", "+", "1", "l">>, <<"1", "2", "e", "-", "0", "6", "L">>,
  <<"0", "e", "-", "1", "d", "f">>, <<"0", "E", "-", "1", "d", "d">>,
  <<"0", "e", "+", "1", "d", "l">>, <<"0", "e", "-", "1", "D", "F">>,
  <<"0", "E", "-", "1", "D", "D">>, <<"0", "e", "+", "1", "D", "L">>,
  <<"1", "1", "e", "1">>, <<"1", "1", "e", "-", "5">>, <<"1", "1", "e", "1", "f">>,
  <<"1", "1", "e", "-", "5", "F">>, <<"1", "1", "e", "1", "l">>,
  <<"1", "1", "e", "-", "5", "L">>, <<"1", "1", "e", "1", "d", "f">>,
  <<"1", "1", "e", "-", "5", "d", "d">>, <<"1", "1", "e", "1", "d", "l">>,
  <<"1", "1", "e", "1", "D", "F">>, <<"1", "1", "e", "-", "5", "D", "D">>,
  <<"1", "1", "e", "1", "D", "L">>, <<".", "1", "1">>, <<".", "1", "1", "f">>,
  <<".", "1", "1", "F">>, <<".", "1", "1", "l">>, <<".", "1", "1", "L">>,
  <<".", "1", "1", "d", "f">>, <<".", "1", "1", "d", "d">>,
  <<".", "1", "1", "d", "l">>, <<".", "1", "1", "D", "F">>,
  <<".", "1", "1", "D", "D">>, <<".", "1", "1", "D", "L">>,
  <<".", "1", "1", "e", "1", "f">>, <<".", "1", "1", "e", "-", "5", "F">>,
  <<".", "1", "1", "e", "1", "l">>, <<".", "1", "1", "e", "-", "5", "L">>,
  <<".", "1", "1", "e", "1", "d", "f">>, <<".", "1", "1", "e", "-", "5", "d", "d">>,
  <<".", "1", "1", "e", "1", "d", "l">>, <<".", "1", "1", "e", "1", "D", "F">>,
  <<".", "1", "1", "e", "-", "5", "D", "D">>, <<".", "1", "1", "e", "1", "D", "L">>,
  <<"3", ".", "1", "1">>, <<"3", ".", "1", "1", "f">>, <<"3", ".", "1", "1", "F">>,
  <<"3", ".", "1", "1", "l">>, <<"3", ".", "1", "1", "L">>,
  <<"3", ".", "1", "1", "d", "f">>, <<"3", ".", "1", "1", "d", "d">>,
  <<"3", ".", "1", "1", "d", "l">>, <<"3", ".", "1", "1", "D", "F">>,
  <<"3", ".", "1", "1", "D", "D">>, <<"3", ".", "1", "1", "D", "L">>,
  <<"3", ".", "1", "1", "e", "1", "f">>, <<"3", ".", "1", "1", "e", "-", "5", "F">>,
  <<"3", ".", "1", "1", "e", "1", "l">>, <<"3", ".", "1", "1", "e", "-", "5", "L">>,
  <<"3", ".", "1", "1", "e", "1", "d", "f">>,
  <<"3", ".", "1", "1", "e", "-", "5", "d", "d">>,
  <<"3", ".", "1", "1", "e", "1", "d", "l">>,
  <<"3", ".", "1", "1", "e", "1", "D", "F">>,
  <<"3", ".", "1", "1", "e", "-", "5", "D", "D">>,
  <<"3", ".", "1", "1", "e", "1", "D", "L">>, <<"0", ".">>, <<"1", "2", ".">>,
  <<"1", "2", ".", "e", "5">>, <<"1", "2", ".", "E", "+", "5", "d", "l">>,
  <<"3", "4", ".", "e", "-", "0", "5", "L">>,
  <<"6", "7", "5", "4", "3", ".", "E", "6">>, <<"0", ".", "E", "1", "d", "d">>,
  <<"0", ".", "0", "e", "-", "1">>, <<"0", ".", "0", "1", "E", "+", "1">>,
  <<"0", ".", "0", "e", "-", "1", "f">>, <<"0", ".", "0", "E", "-", "1", "F">>,
  <<"0", ".", "0", "e", "+", "1", "l">>,
  <<"1", "2", ".", "0", "e", "-", "0", "6", "L">>,
  <<"0", ".", "0", "e", "-", "1", "d", "f">>,
  <<"0", ".", "0", "E", "-", "1", "d", "d">>,
  <<"0", ".", "0", "e", "+", "1", "d", "l">>,
  <<"0", ".", "0", "e", "-", "1", "D", "F">>,
  <<"0", ".", "0", "E", "-", "1", "D", "D">>,
  <<"0", ".", "0", "e", "+", "1", "D", "L">>
}

\* The negative_floats[] fixture.
negative_floats == {
  <<"0", ".", "0", "e", "-", "1", "d", "L">>,
  <<"0", ".", "0", "e", "-", "1", "D", "f">>, <<"0", ".", "0", "e", "+">>,
  <<"0", ".", "0", "e", "-">>, <<"0", ".", "0", "e">>
}

\* Digit sequences of the four radices, as the integer[] fixture has them, and
\* binary ones.
IntBodies == {
  <<"0">>, <<"1">>, <<"1", "2", "3", "4", "5", "6", "7", "8", "9">>,
  <<"0", "7", "7", "7">>, <<"0", "x", "a">>, <<"0", "X", "b", "e", "e", "f">>,
  <<"0", "b", "1">>, <<"0", "B", "1", "0">>
}

\* The integer[] fixture, every body with every suffix.
integer == {b \o x : b \in IntBodies, x \in IntSuffixes} \cup char_constants

\* The integer_ident[] fixture.
integer_ident == {<<"0", "x", "a">> \o x \o <<"x">> : x \in IntSuffixes}

FloatDigits == {<<"0">>, <<"1", "2">>}

Exponents == {<<"e", "1">>, <<"e", "-", "1">>, <<"E", "+", "0", "5">>}

FloatSuffixes == {
  <<>>, <<"f">>, <<"F">>, <<"l">>, <<"L">>, <<"d", "f">>, <<"d", "d">>, <<"d", "l">>,
  <<"D", "F">>, <<"D", "D">>, <<"D", "L">>
}

\* digits exponent | . digits [exponent] | digits . [digits] [exponent]
FloatBodies ==
  {d \o e : d \in FloatDigits, e \in Exponents}
  \cup {<<".">> \o d \o e : d \in FloatDigits, e \in Exponents \cup {<<>>}}
  \cup {d \o <<".">> \o f \o e :
          d \in FloatDigits, f \in FloatDigits \cup {<<>>}, e \in Exponents \cup {<<>>}}

FloatVectors == floats \cup {b \o x : b \in FloatBodies, x \in FloatSuffixes}

\* The texts the token tests scan, each alone.
VecInputs ==
  {f.lex : f \in fixed_tokens} \cup {k.lex : k \in keywords} \cup integer
  \cup integer_ident \cup FloatVectors \cup negative_floats

----------------------------------------------------------------------------
\* The state machine: one Lexer over one stream, and the calls a parser makes.

NoBatch == [v |-> <<>>, hung |-> FALSE]

\* The Lexer object and its stream, as a value.
Self ==
  [input |-> input, pos |-> pos, eofbit |-> eofbit, failbit |-> failbit,
   badbit |-> badbit, row |-> row, col |-> col, lookahead |-> lookahead]

\* The Lexer and the observations after a call with result R.
Install(R, name) ==
  /\ input' = R.L.input
  /\ pos' = R.L.pos
  /\ eofbit' = R.L.eofbit
  /\ failbit' = R.L.failbit
  /\ badbit' = R.L.badbit
  /\ row' = R.L.row
  /\ col' = R.L.col
  /\ lookahead' = R.L.lookahead
  /\ hung' = R.hung
  /\ op' = name
  /\ ret' = IF R.hung THEN NoLexeme ELSE R.ret
  /\ nscans' = R.nscans
  /\ diags' = R.diags
  /\ io' = R.io

\* The state after `Lexer lexer(std::move(reader))` over a stream holding s.
Construct(s) ==
  \E R \in {Lexer(s)} :
  /\ input = s
  /\ pos = R.L.pos
  /\ eofbit = R.L.eofbit
  /\ failbit = R.L.failbit
  /\ badbit = R.L.badbit
  /\ row = R.L.row
  /\ col = R.L.col
  /\ lookahead = R.L.lookahead
  /\ hung = R.hung
  /\ op = "construct"
  /\ ret = NoLexeme
  /\ nscans = R.nscans
  /\ diags = R.diags
  /\ io = R.io
  /\ out = <<>>
  /\ arg = 0
  /\ batch = NoBatch

Init == \E s \in Inputs : Construct(s)

InitKw == \E s \in KwInputs : Construct(s)

Peek ==
  /\ ~hung
  /\ Install(peek(Self), "peek")
  /\ arg' = 0
  /\ UNCHANGED <<out, batch>>

Eat ==
  /\ ~hung
  /\ Len(out) < MaxEats
  /\ \E R \in {eat(Self)} :
       /\ Install(R, "eat")
       /\ out' = IF R.hung THEN out ELSE Append(out, R.ret)
  /\ arg' = 0
  /\ UNCHANGED batch

Preload ==
  /\ ~hung
  /\ \E n \in 0..MaxPreload :
       /\ Install(preload(Self, n), "preload")
       /\ arg' = n
  /\ UNCHANGED <<out, batch>>

\* A call of the batch driver on the same text, on a Lexer of its own; it may
\* be called again at any time.
ScanTokens ==
  /\ batch' = scan_tokens(input)
  /\ UNCHANGED <<input, pos, eofbit, failbit, badbit, row, col, lookahead, hung,
                 op, ret, nscans, diags, io, out, arg>>

Next == Peek \/ Eat \/ Preload \/ ScanTokens

Spec == Init /\ [][Next]_vars

SpecKw == InitKw /\ [][Next]_vars

InitVec == \E s \in VecInputs : Construct(s)

\* The calls of a caller that only takes lexemes, one by one or all at once.
NextScan == Eat \/ ScanTokens

SpecVec == InitVec /\ [][NextScan]_vars

\* Characters of numbers, literals, escapes and errors, with line structure.
ErrAlphabet == {"1", "0", "x", "e", "u", ".", SQ, DQ, BS, "$", SP, NL, XFF}

\* Longer texts: an escape that runs into a line break; a token behind tabs,
\* vertical tab and form feed; every character START skips.
PosVectors == {
  <<DQ, BS, NL, "x">>, <<SQ, BS, NL, "x", "x">>, <<HT, "x", VT, FF, HT, "x">>,
  <<"@", "$", SP, "@", NL, "#", BS>>, <<"x", "$", "@", "#", "x">>,
  <<"x", ".", NL, "1">>
}

ErrInputs == SeqsUpTo(ErrAlphabet, MaxLen) \cup PosVectors

InitErr == \E s \in ErrInputs : Construct(s)

SpecErr == InitErr /\ [][NextScan]_vars

\* Character constants and string literals.  The encoding prefixes:
LitPrefixes == {<<>>, <<"u", "8">>, <<"u">>, <<"U">>, <<"L">>}

MaxItems == 2

\* What stands between the quotes: plain characters, the other quote, a byte
\* above 0x7F, and escape sequences of every accepted form.
LitItems(q) ==
  {<<"a">>, <<SP>>, <<XFF>>, <<IF q = SQ THEN DQ ELSE SQ>>,
   <<BS, "n">>, <<BS, q>>, <<BS, BS>>, <<BS, "0">>, <<BS, "x", "f">>,
   <<BS, "u", "0", "0", "4", "1">>}

RECURSIVE Flatten(_)
Flatten(ss) == IF ss = <<>> THEN <<>> ELSE Head(ss) \o Flatten(Tail(ss))

LitBodies(q) == {Flatten(ss) : ss \in SeqsUpTo(LitItems(q), MaxItems)}

\* A literal closed by its quote: prefix, quote, body, quote.  A character
\* constant holds at least one item.
ClosedLits(q) ==
  {p \o <<q>> \o b \o <<q>> :
     p \in LitPrefixes, b \in {x \in LitBodies(q) : q = DQ \/ x # <<>>}}

\* What follows the literal in the text.
LitTails == {<<>>, <<"x">>, <<SP, "1">>, <<NL>>}

\* A prefix spelling with no quote right behind it.
PrefixIdents ==
  {p \o t : p \in LitPrefixes \ {<<>>},
            t \in {<<>>, <<"x">>, <<"8">>, <<"_", SQ>>, <<SP, SQ, "a", SQ>>, <<SP, DQ, DQ>>, <<";">>}}

\* A literal still open: prefix, quote, body; the body may end in an escape
\* sequence cut short.
OpenBodies(q) == LitBodies(q) \cup {<<BS, "x">>, <<"a", BS, "u", "0", "0">>}

OpenLits(q) == {p \o <<q>> \o b : p \in LitPrefixes, b \in OpenBodies(q)}

\* What ends the open literal: the end of the text, or a newline and what
\* stands on the next line.
OpenTails == {<<>>, <<NL>>, <<NL, "x">>, <<NL, SP, "x">>}

LitInputs ==
  {l \o t : l \in ClosedLits(SQ) \cup ClosedLits(DQ), t \in LitTails}
    \cup PrefixIdents
    \cup {l \o t : l \in OpenLits(SQ) \cup OpenLits(DQ), t \in OpenTails}

InitLit == \E s \in LitInputs : Construct(s)

SpecLit == InitLit /\ [][NextScan]_vars

\* Operator and punctuation characters: all that occur in fixed_tokens.
OpChars == UNION {{k.lex[i] : i \in 1..Len(k.lex)} : k \in fixed_tokens}

\* The characters of the operators of more than one character.
MunchChars == {".", "<", ">", "=", "-", "+", "&", "|"}

\* Every operator character alone and every pair of them; every text of the
\* characters that occur in longer operators.
OpInputs ==
  {<<a>> : a \in OpChars} \cup {<<a, b>> : a, b \in OpChars}
    \cup SeqsUpTo(MunchChars, MaxLen)

InitOp == \E s \in OpInputs : Construct(s)

SpecOp == InitOp /\ [][NextScan]_vars

\* The proper prefixes of the reserved words.
KwPrefixes == UNION {{SubSeq(k.lex, 1, n) : n \in 1..(Len(k.lex) - 1)} : k \in keywords}

\* Identifier characters to put behind a prefix, and what may follow them.
PreChars == {"z", "1", "8", "_", "e", "o"}

PreTails == {<<>>, <<"s">>, <<SQ, "a", SQ>>, <<DQ, DQ>>}

\* What may follow a whole reserved word.
WordTails == {<<>>, <<SP>>, <<"(">>}

PreInputs ==
  {p \o <<c>> \o t : p \in KwPrefixes, c \in PreChars, t \in PreTails}
    \cup {k.lex \o t : k \in keywords, t \in WordTails}

InitPre == \E s \in PreInputs : Construct(s)

SpecPre == InitPre /\ [][NextScan]_vars

\* Numeric texts.  A leading zero followed by octal digits, 8, 9, a point or
\* an exponent marker:
ZeroChars == {"0", "7", "8", "9", ".", "e", "E"}

ZeroInputs == {<<"0">> \o s : s \in SeqsUpTo(ZeroChars, MaxLen)}

\* The four kinds of integer literal: what stands before the digits, and some
\* of the digits.
IntKinds == {
  [pre |-> <<>>, first |-> {"1", "9"}, digits |-> {"0", "1", "9"}],
  [pre |-> <<"0">>, first |-> {"0", "7"}, digits |-> {"0", "7"}],
  [pre |-> <<"0", "x">>, first |-> {"1", "f"}, digits |-> {"1", "f"}],
  [pre |-> <<"0", "b">>, first |-> {"0", "1"}, digits |-> {"0", "1"}]
}

\* Digits and apostrophes behind a first digit.
SepOf(k) == {k.pre \o <<d>> \o s : d \in k.first, s \in SeqsUpTo(k.digits \cup {SQ}, MaxLen)}

SepInputs == UNION {SepOf(k) : k \in IntKinds}

\* Letters that occur in integer suffixes, behind a decimal and a hexadecimal
\* literal.
SufLetters == {"u", "l", "L", "w", "b"}

SufBodies == {<<"1">>, <<"0", "x", "1">>}

SufInputs == {b \o x : b \in SufBodies, x \in SeqsUpTo(SufLetters, MaxLen)}

\* Decimal and hexadecimal mantissas, and the characters of exponents behind
\* them.
ExpBodies == {
  <<"1">>, <<"1", ".">>, <<".", "5">>, <<"0", "x", "1">>, <<"0", "x", "1", ".">>,
  <<"0", "x", ".", "1">>
}

ExpChars == {"e", "p", "+", "1", "f", ".", XFF}

ExpInputs == {b \o s : b \in ExpBodies, s \in SeqsUpTo(ExpChars, MaxLen)}

\* A hexadecimal or binary prefix and what may stand behind it.
RadixPrefixes == {<<"0", x>> : x \in {"x", "X", "b", "B"}}

PrefixFollowers ==
  {"0", "1", "2", "f", "g", "x", "b", "_", ".", SQ, ";", "$", SP, NL, NUL, XFF}

PrefixInputs ==
  RadixPrefixes
    \cup {p \o <<c>> \o t : p \in RadixPrefixes, c \in PrefixFollowers, t \in {<<>>, <<"1">>}}

NumInputs == ZeroInputs \cup SepInputs \cup SufInputs \cup ExpInputs \cup PrefixInputs

InitNum == \E s \in NumInputs : Construct(s)

SpecNum == InitNum /\ [][NextScan]_vars

\* Literals whose body starts with a backslash.  What follows the backslash:
\* the letters is_simple_escape_sequence looks for, digits, x, u, U, letters
\* that start no escape, white space and the bytes 0 and 0xFF.
EscHeads ==
  {SQ, DQ, "?", BS, "a", "b", "f", "n", "r", "t", "v",
   "0", "7", "8", "x", "u", "U", "j", "e", SP, NL, NUL, XFF}

EscDigits == {"7", "9", "f", "g"}

\* Runs of digits around the lengths the octal escape, \u and \U ask for.
DigitRuns ==
  {[i \in 1..n |-> IF i = n THEN "f" ELSE "0"] : n \in 1..9}
    \cup {[i \in 1..n |-> "7"] : n \in 1..4}

\* A second escape behind a complete first one.
EscPairs ==
  {<<BS>> \o a \o <<BS, h>> :
     a \in {<<"n">>, <<"1">>, <<"x", "f">>}, h \in EscHeads \ {NUL, XFF}}

EscBodies ==
  {<<BS, h>> \o d : h \in EscHeads, d \in SeqsUpTo(EscDigits, MaxLen - 1)}
    \cup {<<BS, h>> \o d \o t :
            h \in {"0", "7", "x", "u", "U"}, d \in DigitRuns, t \in {<<>>, <<"g">>}}
    \cup EscPairs

EscInputs ==
  {p \o <<q>> \o b \o <<q>> : p \in {<<>>, <<"L">>}, q \in {SQ, DQ}, b \in EscBodies}

\* Character constants with nothing between the quotes.
EmptyTails == LitTails \cup {<<SQ>>, <<"a", SQ>>}

EmptyConsts == {p \o <<SQ, SQ>> \o t : p \in LitPrefixes, t \in EmptyTails}

InitEsc == \E s \in EscInputs \cup EmptyConsts : Construct(s)

SpecEsc == InitEsc /\ [][NextScan]_vars

\* White space in front of a token and between two tokens: the characters
\* std::isspace takes in the C locale.
WsChars == {SP, HT, NL, VT, FF, CR}

WsTails == {<<>>, <<"x">>} \cup {<<"x", c, "y">> : c \in WsChars}

WsInputs == {w \o t : w \in SeqsUpTo(WsChars, MaxLen), t \in WsTails}

InitWs == \E s \in WsInputs : Construct(s)

SpecWs == InitWs /\ [][NextScan]_vars

----------------------------------------------------------------------------
\* Properties.  A call that scanned leaves the lexeme it scanned last at the
\* back of the queue, and the stream right behind that lexeme's last character.

Scanned1 == ~hung /\ nscans > 0

LastScanned == lookahead[Len(lookahead)]

\* The first lexeme of the input: eaten first, or still at the front.
FirstLexeme == IF out # <<>> THEN out[1] ELSE Head(lookahead)

IsPrefix(a, b) == Len(a) <= Len(b) /\ SubSeq(b, 1, Len(a)) = a

\* The longest prefix of s made of identifier-continuation characters.
RECURSIVE IdentRun(_)
IdentRun(s) ==
  IF s = <<>> \/ ~is_ident_cont(ToChar(Head(s))) THEN <<>>
  ELSE <<Head(s)>> \o IdentRun(Tail(s))

KeywordSpellings == {k.lex : k \in keywords}

\* C1: a keyword lexeme is emitted only when the source character right after
\* the keyword's last character is not a letter, digit or underscore (or the
\* source ends there); and an input that starts with a reserved word running on
\* into more identifier characters, the whole run not being a reserved word
\* itself, starts with one IDENTIFIER whose text is the whole run.
C1_KeywordNeverAPrefix ==
  /\ (Scanned1 /\ LastScanned.token \in KeywordTokens)
       => (pos = Len(input) \/ ~is_ident_cont(ToChar(input[pos + 1])))
  /\ (/\ ~hung
      /\ \E k \in keywords :
           IsPrefix(k.lex, input) /\ Len(IdentRun(input)) > Len(k.lex)
      /\ IdentRun(input) \notin KeywordSpellings)
       => FirstLexeme = Lexeme(IdentRun(input), "IDENTIFIER", 1, 1)

\* `autoz` has been scanned and eaten: one IDENTIFIER, then END is buffered.
C1_Witness ==
  /\ input = <<"a", "u", "t", "o", "z">>
  /\ out = <<Lexeme(<<"a", "u", "t", "o", "z">>, "IDENTIFIER", 1, 1)>>
  /\ Head(lookahead).token = "END"

\* C2: every scan returns: no call on the Lexer, the constructor included, is
\* ever stuck in scan_token.
C2_EveryScanReturns == ~hung

\* C3: the text of a non-END lexeme is the run of source characters the stream
\* holds right before the position the scan stopped at, as long as the text.
C3_TextIsTheSourceRun ==
  (Scanned1 /\ LastScanned.token # "END") =>
    /\ Len(LastScanned.lexeme) <= pos
    /\ LastScanned.lexeme =
         [i \in 1..Len(LastScanned.lexeme) |->
            ToChar(input[pos - Len(LastScanned.lexeme) + i])]

\* C4: after construction and after every peek, eat and preload that returned,
\* the lookahead queue holds at least one lexeme.
C4_QueueNeverEmpty == ~hung => Len(lookahead) >= 1

\* END has been eaten twice and the queue still holds a lexeme.
C4_Witness ==
  /\ ~hung
  /\ Len(out) >= 2
  /\ out[Len(out) - 1].token = "END"
  /\ out[Len(out)].token = "END"
  /\ Len(lookahead) = 1

\* C5: peek() can be called right after construction, it returns the front of
\* the queue and leaves the queue, the cursor and the stream as they were, and
\* a peek() right after a peek() returns the same lexeme.
C5_PeekChangesNothing ==
  /\ [](op = "construct" /\ ~hung => Len(lookahead) >= 1)
  /\ [][op' = "peek" =>
          /\ UNCHANGED <<input, pos, eofbit, failbit, badbit, row, col, lookahead>>
          /\ ret' = Head(lookahead)
          /\ nscans' = 0
          /\ (op = "peek" => ret' = ret)]_vars

\* peek() has returned the first lexeme, a non-END one, and nothing was eaten.
C5_Witness ==
  /\ op = "peek"
  /\ out = <<>>
  /\ ret = Head(lookahead)
  /\ ret.token # "END"
  /\ pos > 0

\* A step of eat() that returned.
EatReturned == op' = "eat" /\ ~hung' /\ Len(out') = Len(out) + 1

\* C6: eat() returns the front of the queue, what peek() would return, and
\* removes it; it scans once exactly when that removal emptied the queue, and
\* with a prefetched lexeme left it scans nothing and leaves cursor and stream.
C6_EatTakesFront ==
  [][/\ EatReturned =>
          /\ ret' = Head(lookahead)
          /\ out' = Append(out, Head(lookahead))
          /\ IF Len(lookahead) = 1
             THEN nscans' = 1 /\ Len(lookahead') = 1
             ELSE /\ nscans' = 0
                  /\ lookahead' = Tail(lookahead)
                  /\ UNCHANGED <<input, pos, eofbit, failbit, badbit, row, col>>
     /\ (op' = "eat" /\ hung' /\ ~hung) => Len(lookahead) = 1]_vars

\* eat() returned a lexeme while a prefetched one remained: no scan.
C6_Witness ==
  /\ op = "eat"
  /\ ~hung
  /\ nscans = 0
  /\ ret = out[Len(out)]
  /\ Len(lookahead) >= 1

\* A step of preload(arg') that returned.
PreloadReturned == op' = "preload" /\ ~hung' /\ batch' = batch

\* At most one END in the queue, and only as its last element.
EndOnlyLast == \A i \in 1..(Len(lookahead) - 1) : lookahead[i].token # "END"

\* C7: preload(n) scans at most n times and appends what it scans to the back
\* of the queue, scans nothing when the last buffered lexeme is END, and stops
\* right after the first scan that returns END; so the queue never holds an END
\* anywhere but last.
C7_PreloadStopsAtEnd ==
  /\ []EndOnlyLast
  /\ [][PreloadReturned =>
          /\ nscans' <= arg'
          /\ Len(lookahead') = Len(lookahead) + nscans'
          /\ SubSeq(lookahead', 1, Len(lookahead)) = lookahead
          /\ (lookahead[Len(lookahead)].token = "END" =>
                /\ nscans' = 0
                /\ UNCHANGED <<input, pos, eofbit, failbit, badbit, row, col>>)
          /\ \A i \in (Len(lookahead) + 1)..(Len(lookahead') - 1) :
               lookahead'[i].token # "END"]_vars

\* preload(2) stopped after one scan, which returned END, behind a buffered
\* lexeme.
C7_Witness ==
  /\ op = "preload"
  /\ ~hung
  /\ arg = 2
  /\ nscans = 1
  /\ Len(lookahead) >= 2
  /\ lookahead[Len(lookahead)].token = "END"

\* The first k lexemes of the input, scanned one at a time from Lexer state L;
\* shorter when a scan never returns.
RECURSIVE ScanSeq(_, _)
\* q: the scan that yields the next lexeme.
ScanSeqFrom(q, k) ==
  IF q.hung THEN <<>> ELSE <<q.ret>> \o ScanSeq(After(q, <<>>), k - 1)

ScanSeq(L, k) == IF k = 0 THEN <<>> ELSE ScanSeqFrom(scan_token(L), k)

\* C8: whatever peek() and preload(n) calls come between them, the lexemes
\* eaten so far followed by the lexemes buffered are the lexemes of the input
\* scanned one at a time in order: none lost, duplicated or reordered.
C8_EatsAreTheScansInOrder ==
  ~hung => out \o lookahead = ScanSeq(Members(input), Len(out) + Len(lookahead))

\* Two lexemes eaten, the second out of the prefetched ones, one still buffered.
C8_Witness ==
  /\ ~hung
  /\ op = "eat"
  /\ nscans = 0
  /\ Len(out) >= 2
  /\ out[1].token # "END"
  /\ out[2].token # "END"
  /\ Len(lookahead) >= 1

\* C9: once eat() has returned END, every later eat() returns END at the same
\* row and col, and so does the lexeme peek() returns.
C9_EndIsIdempotent ==
  \A i \in 1..Len(out) :
    out[i].token = "END" =>
      /\ \A j \in i..Len(out) :
           /\ out[j].token = "END"
           /\ out[j].row = out[i].row
           /\ out[j].col = out[i].col
      /\ ~hung =>
           /\ Head(lookahead).token = "END"
           /\ Head(lookahead).row = out[i].row
           /\ Head(lookahead).col = out[i].col

NulFree(s) == \A i \in 1..Len(s) : s[i] # NUL

\* C10: scan_tokens returns a non-empty sequence that ends with END and holds
\* no END before; and on the same text its elements are the lexemes successive
\* eat() calls return, in order, up to and including the first END.
C10_BatchIsTheEats ==
  batch # NoBatch =>
    /\ ~batch.hung
    /\ Len(batch.v) >= 1
    /\ batch.v[Len(batch.v)].token = "END"
    /\ \A i \in 1..(Len(batch.v) - 1) : batch.v[i].token # "END"
    /\ NulFree(input) =>
         \A i \in 1..Len(out) :
           (\A j \in 1..(i - 1) : out[j].token # "END") =>
             (i <= Len(batch.v) /\ out[i] = batch.v[i])

\* The batch of a three-token text, and the same lexemes eaten one by one.
C10_Witness ==
  /\ batch # NoBatch
  /\ Len(batch.v) >= 3
  /\ out = batch.v

\* scan_tokens has been called on the text.
Batched == batch # NoBatch

\* The batch is one lexeme of kind tkn holding the whole text, at (1,1), and END.
AloneAs(tkn) ==
  /\ Len(batch.v) = 2
  /\ batch.v[1] = Lexeme(input, tkn, 1, 1)
  /\ batch.v[2].token = "END"

\* C11: every operator, punctuation and reserved-word spelling, scanned alone,
\* yields its token with the spelling as text at row 1 col 1, and then END.
C11_FixedSpellingsAlone ==
  \A f \in fixed_tokens \cup keywords :
    (Batched /\ input = f.lex) => AloneAs(f.tok)

\* `>>=` scanned alone: RSHIFT_ASSIGN and END.
C11_Witness ==
  /\ input = <<">", ">", "=">>
  /\ Batched
  /\ batch.v[1].token = "RSHIFT_ASSIGN"
  /\ Len(batch.v) = 2

\* C12: every integer literal of the four radices with no suffix or a suffix of
\* u, l, ll in any order and case, and every character constant of the fixture,
\* scanned alone, yields INTEGER_LIT with the whole text, and then END.
C12_IntegerLiteralsAlone ==
  (Batched /\ input \in integer) => AloneAs("INTEGER_LIT")

\* C13: 0xa with no suffix or any of the suffixes, followed by x, yields
\* INTEGER_LIT holding all but the x, IDENTIFIER x, and END.
C13_HexThenIdentifier ==
  (Batched /\ input \in integer_ident) =>
    /\ Len(batch.v) = 3
    /\ batch.v[1].token = "INTEGER_LIT"
    /\ batch.v[1].lexeme = SubSeq(input, 1, Len(input) - 1)
    /\ batch.v[2].token = "IDENTIFIER"
    /\ batch.v[2].lexeme = <<"x">>
    /\ batch.v[3].token = "END"

ResidueThenEnd ==
  \/ /\ Len(batch.v) = 2
     /\ batch.v[2].token = "END"
  \/ /\ Len(batch.v) = 3
     /\ batch.v[2].token = "IDENTIFIER"
     /\ batch.v[1].lexeme \o batch.v[2].lexeme = input
     /\ batch.v[3].token = "END"

\* C15 as stated: every malformed float of the fixture yields INVALID with a
\* text that is a prefix of the input and shorter than it, then at most one
\* IDENTIFIER with the residue, then END.
C15_InvalidIsStrictPrefix ==
  (Batched /\ input \in negative_floats) =>
    /\ batch.v[1].token = "INVALID"
    /\ IsPrefix(batch.v[1].lexeme, input)
    /\ Len(batch.v[1].lexeme) < Len(input)
    /\ ResidueThenEnd

\* The fixture's texts that end in a suffix of mixed case, dL and Df.
MixedCaseSuffix == {x \in negative_floats : x[Len(x)] \in {"L", "f"}}

\* C15: every malformed float of the fixture yields INVALID first; for the
\* mixed-case suffixes its text is the input without the last letter, which
\* follows as one IDENTIFIER; for the exponents without digits its text is the
\* whole input; then END.
C15_InvalidIsPrefix ==
  (Batched /\ input \in negative_floats) =>
    /\ batch.v[1].token = "INVALID"
    /\ batch.v[1].row = 1
    /\ batch.v[1].col = 1
    /\ ResidueThenEnd
    /\ IF input \in MixedCaseSuffix
       THEN Len(batch.v) = 3 /\ Len(batch.v[2].lexeme) = 1
       ELSE Len(batch.v) = 2 /\ batch.v[1].lexeme = input

\* `0.0e-1dL` scanned: INVALID `0.0e-1d`, IDENTIFIER `L`, END.
C15_Witness ==
  /\ input = <<"0", ".", "0", "e", "-", "1", "d", "L">>
  /\ Batched
  /\ Len(batch.v) = 3
  /\ batch.v[1].token = "INVALID"
  /\ batch.v[2].lexeme = <<"L">>

LineBreaks == {NL, VT, FF}

\* The 1-based line and column of the k-th character of s: <<row, col>>.
LineCol(s, k) ==
  LET breaks == {i \in 1..(k - 1) : s[i] \in LineBreaks}
      last == IF breaks = {} THEN 0 ELSE CHOOSE i \in breaks : \A j \in breaks : j <= i
  IN <<1 + Cardinality(breaks), k - last>>

\* Whitespace as the specification lists it.
SpecWhitespace == {SP, HT, NL, VT, FF}

\* Characters that start no token.
InvalidTop == {"$", "@", "#", BS}

\* The index of the first character behind the first p of s that is neither
\* whitespace nor skipped: where the next token starts.
TokenStart(s, p) ==
  LET starts == {i \in (p + 1)..Len(s) : s[i] \notin SpecWhitespace \cup InvalidTop}
  IN IF starts = {} THEN Len(s) + 1 ELSE CHOOSE i \in starts : \A j \in starts : i <= j

At(l) == <<l.row, l.col>>

\* C16: the row and col of every lexeme but END are the line and column of its
\* first character in the source, for the first lexeme and for every lexeme a
\* later scan returns.
C16_PositionIsLineAndColumn ==
  /\ []((op = "construct" /\ ~hung /\ Head(lookahead).token # "END")
          => At(Head(lookahead)) = LineCol(input, TokenStart(input, 0)))
  /\ [][(EatReturned /\ nscans' = 1 /\ LastScanned'.token # "END")
          => At(LastScanned') = LineCol(input, TokenStart(input, pos))]_vars

\* <<r1, c1>> before <<r2, c2>> in lexicographic order.
Before(a, b) == a[1] < b[1] \/ (a[1] = b[1] /\ a[2] < b[2])

\* The lexemes returned and those still to be returned, in order.
Returned == out \o lookahead

\* C17: the positions of successive lexemes never go back, go strictly forward
\* from one non-END lexeme to the next, and have row >= 1 and col >= 1.
C17_PositionsGoForward ==
  ~hung =>
    /\ \A i \in 1..Len(Returned) : Returned[i].row >= 1 /\ Returned[i].col >= 1
    /\ \A i \in 1..(Len(Returned) - 1) :
         /\ ~Before(At(Returned[i + 1]), At(Returned[i]))
         /\ (Returned[i].token # "END" /\ Returned[i + 1].token # "END")
              => Before(At(Returned[i]), At(Returned[i + 1]))

\* Three lexemes eaten, the second on the row of the first, the third on the
\* next row.
C17_Witness ==
  /\ Len(out) >= 3
  /\ out[3].token # "END"
  /\ out[1].row = out[2].row
  /\ out[2].row < out[3].row

OnlySkipped(s) == \A i \in 1..Len(s) : s[i] \in SpecWhitespace \cup InvalidTop

InvalidAt(s) == {i \in 1..Len(s) : s[i] \in InvalidTop}

\* s with every `$` replaced by a space.
Blanked(s) == [i \in 1..Len(s) |-> IF s[i] = "$" THEN SP ELSE s[i]]

\* Kind and position of every lexeme of v.
Shape(v) == [i \in 1..Len(v) |-> <<v[i].token, v[i].row, v[i].col>>]

\* C18: a text made only of characters that start no token and of whitespace
\* yields END alone, at the position behind the last character, with one
\* diagnostic per such character at that character's position; and in any text
\* a `$` yields no lexeme and moves the column by one: kinds and positions of
\* all lexemes are those of the text with a space in its place.
C18_InvalidCharIsSkipped ==
  /\ (op = "construct" /\ ~hung /\ OnlySkipped(input)) =>
       /\ Len(lookahead) = 1
       /\ Head(lookahead).token = "END"
       /\ At(Head(lookahead)) = LineCol(input, Len(input) + 1)
       /\ Len(diags) = Cardinality(InvalidAt(input))
       /\ \A i \in 1..Len(diags) : diags[i].msg = "Skipped invalid character"
       /\ {<<diags[i].row, diags[i].col>> : i \in 1..Len(diags)}
            = {LineCol(input, i) : i \in InvalidAt(input)}
  /\ (Batched /\ out = <<>> /\ NulFree(input)) =>
       Shape(batch.v) = Shape(scan_tokens(Blanked(input)).v)

\* Three skipped characters on one line, two on the next: END alone at (2,3),
\* five diagnostics.
C18_Witness ==
  /\ input = <<"@", "$", SP, "@", NL, "#", BS>>
  /\ op = "construct"
  /\ Len(diags) = 5
  /\ lookahead = <<Lexeme(Head(lookahead).lexeme, "END", 2, 3)>>

\* A call that made exactly one scan: its diagnostics and its lexeme.
OneScan == Scanned1 /\ nscans = 1

\* C19 as stated: a scan that writes a diagnostic returns INVALID, and a scan
\* that returns INVALID has written exactly one diagnostic.
C19_DiagnosticIffInvalid ==
  OneScan =>
    /\ (Len(diags) >= 1 => LastScanned.token = "INVALID")
    /\ (LastScanned.token = "INVALID" => Len(diags) = 1)

\* The diagnostics other than those of skipped characters.
IsErr(d) == d.msg # "Skipped invalid character"

ErrDiags == SelectSeq(diags, IsErr)

\* C19: apart from the skipping of characters that start no token, which
\* writes a diagnostic and returns no lexeme, a scan that writes a diagnostic
\* returns INVALID, and a scan that returns INVALID has written exactly one.
C19_ErrorIffInvalid ==
  OneScan =>
    /\ (Len(ErrDiags) >= 1 => LastScanned.token = "INVALID")
    /\ (LastScanned.token = "INVALID" => Len(ErrDiags) = 1)

\* An INVALID lexeme behind a skipped character: two diagnostics, one of them
\* an error.
C19_Witness ==
  /\ OneScan
  /\ LastScanned.token = "INVALID"
  /\ Len(diags) = 2
  /\ Len(ErrDiags) = 1

Min(a, b) == IF a <= b THEN a ELSE b

Rest == SubSeq(input, pos + 1, Len(input))

\* Kind and text of every lexeme of v.
KindText(v) == [i \in 1..Len(v) |-> <<v[i].token, v[i].lexeme>>]

\* C21: at every token boundary the kinds and texts of the lexemes scanned
\* from there on are those a fresh Lexer scans from the rest of the text alone;
\* so also right behind an INVALID lexeme.
C21_ResumesLikeAFreshLexer ==
  (~hung /\ pos <= Len(input)) =>
    KindText(ScanSeq(Self, Len(Rest) + 1))
      = KindText(ScanSeq(Members(Rest), Len(Rest) + 1))

\* Right behind an INVALID lexeme, with a lexeme that is neither INVALID nor
\* END next.
C21_Witness ==
  /\ ~hung
  /\ LastScanned.token = "INVALID"
  /\ Rest # <<>>
  /\ KindText(ScanSeq(Self, 1))[1][1] \notin {"INVALID", "END"}
  /\ KindText(ScanSeq(Self, 1))[1][2] = Rest

\* The text without the tail t, when t is its tail.
Without(s, t) ==
  IF Len(t) <= Len(s) /\ SubSeq(s, Len(s) - Len(t) + 1, Len(s)) = t
  THEN SubSeq(s, 1, Len(s) - Len(t)) ELSE <<>>

\* The first lexeme is a literal of kind tkn whenever the text is a literal
\* closed by q followed by one of the tails.
ClosedIs(q, tkn) ==
  \A t \in LitTails :
    Without(input, t) \in ClosedLits(q) =>
      Head(lookahead) = Lexeme(Without(input, t), tkn, 1, 1)

\* The identifier characters at the front of s.
RECURSIVE IdentFront(_)
IdentFront(s) ==
  IF s # <<>> /\ is_ident_cont(Head(s)) THEN <<Head(s)>> \o IdentFront(Tail(s)) ELSE <<>>

\* C22: a character constant or string literal closed by its quote is one
\* lexeme from the first character of its prefix through the closing quote,
\* INTEGER_LIT for a character constant and STRING_LIT for a string literal;
\* a prefix spelling with no quote right behind it starts an identifier.
C22_ClosedLiteralIsOneLexeme ==
  (op = "construct" /\ ~hung) =>
    /\ ClosedIs(SQ, "INTEGER_LIT")
    /\ ClosedIs(DQ, "STRING_LIT")
    /\ input \in PrefixIdents =>
         Head(lookahead) = Lexeme(IdentFront(input), "IDENTIFIER", 1, 1)

\* C23: every END lexeme, eaten, buffered or returned by scan_tokens, has the
\* empty text.
C23_EndTextIsEmpty ==
  /\ \A i \in 1..Len(Returned) :
       Returned[i].token = "END" => Returned[i].lexeme = <<>>
  /\ \A i \in 1..Len(batch.v) :
       batch.v[i].token = "END" => batch.v[i].lexeme = <<>>

\* The tokens of the catalog whose spelling is a prefix of s.
Candidates(s) == {k \in fixed_tokens : IsPrefix(k.lex, s)}

\* The longest of them.
Munch(s) == CHOOSE k \in Candidates(s) : \A j \in Candidates(s) : Len(j.lex) <= Len(k.lex)

\* The text from column c on.
From(c) == SubSeq(input, c, Len(input))

\* C24: in a text of operator and punctuation characters every lexeme is the
\* longest token of the catalog that starts at its column, the lexemes follow
\* each other without gap or overlap, and the stream stands right behind the
\* last one scanned: a character read beyond it has been pushed back.
C24_MaximalMunch ==
  /\ \A i \in 1..Len(Returned) :
       /\ Returned[i].row = 1
       /\ Returned[i].col = IF i = 1 THEN 1
                            ELSE Returned[i - 1].col + Len(Returned[i - 1].lexeme)
       /\ IF Returned[i].col <= Len(input)
          THEN /\ Returned[i].token = Munch(From(Returned[i].col)).tok
               /\ Returned[i].lexeme = Munch(From(Returned[i].col)).lex
          ELSE Returned[i].token = "END"
  /\ pos = Min(LastScanned.col + Len(LastScanned.lexeme) - 1, Len(input))

\* `..` eaten as DOT at column 1 and DOT at column 2, with END next.
C24_Witness ==
  /\ input = <<".", ".">>
  /\ Len(out) = 2
  /\ out[1] = Lexeme(<<".">>, "DOT", 1, 1)
  /\ out[2] = Lexeme(<<".">>, "DOT", 1, 2)
  /\ Head(lookahead).token = "END"

\* The letters that continue the prefix p towards a reserved word.
NextLetters(p) ==
  {k.lex[Len(p) + 1] : k \in {j \in keywords : Len(j.lex) > Len(p) /\ IsPrefix(p, j.lex)}}

\* The first n characters are a proper prefix of a reserved word and the next
\* one is an identifier character that leads to no reserved word.
LeavesTrieAt(n) ==
  /\ SubSeq(input, 1, n) \in KwPrefixes
  /\ is_ident_cont(input[n + 1])
  /\ input[n + 1] \notin NextLetters(SubSeq(input, 1, n))

WholeWord == {k \in keywords : \E t \in WordTails : input = k.lex \o t}

\* Reserved words are recognised, also those that are a prefix of another or
\* share a prefix with another.
WordsRecognised ==
  \A k \in WholeWord : Head(lookahead) = Lexeme(k.lex, k.tok, 1, 1)

\* C25 as stated: a proper prefix of a reserved word followed by an identifier
\* character that continues no reserved word is one IDENTIFIER holding the
\* whole run; and every reserved word is recognised as itself.
C25_PrefixThenOtherIsIdentifier ==
  (op = "construct" /\ ~hung) =>
    /\ \A n \in 1..(Len(input) - 1) :
         LeavesTrieAt(n) =>
           Head(lookahead) = Lexeme(IdentFront(input), "IDENTIFIER", 1, 1)
    /\ WordsRecognised

\* The text starts with the encoding prefix u8 and a quote.
StartsU8Literal == \E q \in {SQ, DQ} : IsPrefix(<<"u", "8", q>>, input)

\* C25: the same, except that u8 directly followed by a quote starts a
\* character constant or string literal, whose lexeme holds u8 and the quote.
C25_PrefixThenOtherIsIdentifierOrU8 ==
  (op = "construct" /\ ~hung) =>
    /\ \A n \in 1..(Len(input) - 1) :
         LeavesTrieAt(n) =>
           IF StartsU8Literal
           THEN /\ Head(lookahead).token \in {"INTEGER_LIT", "STRING_LIT", "INVALID"}
                /\ IsPrefix(SubSeq(input, 1, 3), Head(lookahead).lexeme)
           ELSE Head(lookahead) = Lexeme(IdentFront(input), "IDENTIFIER", 1, 1)
    /\ WordsRecognised

\* `typeof_` followed by z and s: one IDENTIFIER.
C25_Witness ==
  /\ op = "construct"
  /\ input = <<"t", "y", "p", "e", "o", "f", "_", "z", "s">>
  /\ LeavesTrieAt(7)
  /\ Head(lookahead) = Lexeme(input, "IDENTIFIER", 1, 1)

AllDigits(s) == \A i \in 1..Len(s) : s[i] \in Digits

\* Digits with at most one point among them, and at least one digit.
IsMantissa(m) ==
  \/ m # <<>> /\ AllDigits(m)
  \/ \E j \in 1..Len(m) :
       /\ m[j] = "."
       /\ Len(m) >= 2
       /\ AllDigits(SubSeq(m, 1, j - 1))
       /\ AllDigits(SubSeq(m, j + 1, Len(m)))

\* A decimal floating constant without sign and suffix.
IsDecFloat(s) ==
  \/ IsMantissa(s) /\ ~AllDigits(s)
  \/ \E i \in 2..(Len(s) - 1) :
       /\ s[i] \in {"e", "E"}
       /\ IsMantissa(SubSeq(s, 1, i - 1))
       /\ AllDigits(SubSeq(s, i + 1, Len(s)))

\* C26: a decimal integer or floating constant that starts with 0 and holds
\* 8, 9, a point or an exponent marker anywhere behind the zero is one lexeme,
\* INTEGER_LIT or FLOAT_LIT, holding the whole text.
C26_LeadingZeroIsOneLiteral ==
  (op = "construct" /\ ~hung /\ Head(input) = "0"
     /\ \E i \in 2..Len(input) : input[i] \in {"8", "9", ".", "e", "E"}) =>
    /\ AllDigits(input) => Head(lookahead) = Lexeme(input, "INTEGER_LIT", 1, 1)
    /\ IsDecFloat(input) => Head(lookahead) = Lexeme(input, "FLOAT_LIT", 1, 1)

\* The kinds of integer literal the text starts as: its prefix and a first
\* digit.
KindOf(s) ==
  {k \in IntKinds : /\ Len(s) > Len(k.pre)
                    /\ IsPrefix(k.pre, s)
                    /\ s[Len(k.pre) + 1] \in k.first}

\* Behind the prefix of kind k and up to index n: digits of the kind, with
\* single apostrophes between them.
Separated(s, k, n) ==
  \A i \in (Len(k.pre) + 1)..n :
    /\ s[i] \in k.digits \cup k.first \cup {SQ}
    /\ s[i] = SQ => /\ i > Len(k.pre) + 1 /\ s[i - 1] # SQ
                    /\ i < n /\ s[i + 1] # SQ

\* C27: a decimal, octal, hexadecimal or binary integer literal whose digits
\* are separated by single apostrophes is one INTEGER_LIT holding the whole
\* text; and wherever the text goes on as such a literal up to a digit behind
\* an apostrophe, the first lexeme is an INTEGER_LIT that reaches at least to
\* that digit.
C27_ApostropheStaysInside ==
  (op = "construct" /\ ~hung) =>
    \A k \in KindOf(input) :
      /\ Separated(input, k, Len(input)) =>
           Head(lookahead) = Lexeme(input, "INTEGER_LIT", 1, 1)
      /\ \A n \in (Len(k.pre) + 3)..Len(input) :
           (Separated(input, k, n) /\ input[n - 1] = SQ) =>
             /\ Head(lookahead).token = "INTEGER_LIT"
             /\ IsPrefix(SubSeq(input, 1, n), Head(lookahead).lexeme)

\* `0x1'f1`: one INTEGER_LIT.
C27_Witness ==
  /\ op = "construct"
  /\ input = <<"0", "x", "1", SQ, "f", "1">>
  /\ Head(lookahead) = Lexeme(input, "INTEGER_LIT", 1, 1)

\* The bit-precise suffixes, alone and with an unsigned marker.
BitPreciseSuffixes == {
  <<"w", "b">>, <<"w", "b", "u">>, <<"w", "b", "U">>, <<"u", "w", "b">>, <<"U", "w", "b">>,
  <<"W", "B">>, <<"W", "B", "u">>, <<"W", "B", "U">>, <<"u", "W", "B">>, <<"U", "W", "B">>
}

\* The letters behind the body b, when the text is b followed by suffix
\* letters that start like a suffix and are none of the valid suffixes.
BadSuffixOf(b) ==
  /\ IsPrefix(b, input)
  /\ Len(input) > Len(b)
  /\ \A i \in (Len(b) + 1)..Len(input) : input[i] \in SufLetters
  /\ is_int_suffix_start(input[Len(b) + 1])
  /\ SubSeq(input, Len(b) + 1, Len(input)) \notin IntSuffixes \cup BitPreciseSuffixes

\* C28: an integer literal followed by suffix letters that form no valid
\* suffix is returned as INVALID with one diagnostic.
C28_BadSuffixIsInvalid ==
  (op = "construct" /\ ~hung) =>
    \A b \in SufBodies :
      BadSuffixOf(b) => /\ Head(lookahead).token = "INVALID"
                        /\ Len(diags) = 1

AllXDigits(s) == \A i \in 1..Len(s) : s[i] \in XDigits

\* Behind 0x or 0X: hexadecimal digits with at most one point among them, and
\* at least one digit.
IsHexMantissa(m) ==
  /\ Len(m) >= 3
  /\ m[1] = "0"
  /\ m[2] \in {"x", "X"}
  /\ \/ AllXDigits(SubSeq(m, 3, Len(m)))
     \/ \E j \in 3..Len(m) :
          /\ m[j] = "."
          /\ Len(m) >= 4
          /\ AllXDigits(SubSeq(m, 3, j - 1))
          /\ AllXDigits(SubSeq(m, j + 1, Len(m)))

HasPoint(s) == \E i \in 1..Len(s) : s[i] = "."

\* Behind the exponent marker at index i and an optional sign there is no
\* digit.
NoExpDigit(s, i) ==
  \E j \in {IF i < Len(s) /\ s[i + 1] \in {"+", "-"} THEN i + 2 ELSE i + 1} :
    j > Len(s) \/ s[j] \notin Digits

\* The text starts as a floating constant whose exponent has no digit.
MissingExponent(s) ==
  \E i \in 2..Len(s) :
    /\ NoExpDigit(s, i)
    /\ \/ s[i] \in {"e", "E"} /\ IsMantissa(SubSeq(s, 1, i - 1))
       \/ s[i] \in {"p", "P"} /\ IsHexMantissa(SubSeq(s, 1, i - 1))

\* The text starts as a hexadecimal constant with a point that ends without an
\* exponent marker.
HexPointNoExponent(s) ==
  \E n \in 4..Len(s) :
    /\ IsHexMantissa(SubSeq(s, 1, n))
    /\ HasPoint(SubSeq(s, 1, n))
    /\ n = Len(s) \/ s[n + 1] \notin XDigits \cup {"p", "P", SQ}

\* A floating constant's text has a digit behind its exponent marker, if it
\* has one: p or P in a hexadecimal constant, e or E in a decimal one.
ExponentMarks(t) == IF IsPrefix(<<"0", "x">>, t) \/ IsPrefix(<<"0", "X">>, t)
                    THEN {"p", "P"} ELSE {"e", "E"}

ExponentHasDigit(t) ==
  \A i \in 1..Len(t) : t[i] \in ExponentMarks(t) => ~NoExpDigit(t, i)

\* C29: a text of ExpInputs that starts as a floating constant whose exponent
\* marker, with or without sign, is not followed by a digit is INVALID with the
\* missing-exponent diagnostic; one that starts as a hexadecimal constant with
\* a point and no exponent is INVALID with a diagnostic; and in every text no
\* FLOAT_LIT lexeme has an exponent without digit, or is hexadecimal with a
\* point and without exponent.
C29_ExponentNeedsDigit ==
  /\ (op = "construct" /\ ~hung /\ input \in ExpInputs /\ MissingExponent(input)) =>
       /\ Head(lookahead).token = "INVALID"
       /\ Len(diags) = 1
       /\ diags[1].msg = MsgExp
  /\ (op = "construct" /\ ~hung /\ input \in ExpInputs /\ HexPointNoExponent(input)) =>
       /\ Head(lookahead).token = "INVALID"
       /\ Len(diags) = 1
  /\ \A i \in 1..Len(Returned) :
       Returned[i].token = "FLOAT_LIT" =>
         /\ ExponentHasDigit(Returned[i].lexeme)
         /\ (IsPrefix(<<"0", "x">>, Returned[i].lexeme) /\ HasPoint(Returned[i].lexeme))
              => \E j \in 1..Len(Returned[i].lexeme) : Returned[i].lexeme[j] = "p"

\* `0x1.p+` and a character that is no digit: INVALID.
C29_Witness ==
  /\ op = "construct"
  /\ Len(input) = 7
  /\ SubSeq(input, 1, 6) = <<"0", "x", "1", ".", "p", "+">>
  /\ MissingExponent(input)
  /\ Head(lookahead) = Lexeme(SubSeq(input, 1, 6), "INVALID", 1, 1)

\* The text is the open literal l followed by t.
OpenWith(l, t) == input = l \o t /\ l \in OpenLits(SQ) \cup OpenLits(DQ)

\* C30: a character constant or string literal that meets the end of the text
\* or an unescaped newline before its closing quote is an INVALID lexeme
\* holding the text before the newline, with a diagnostic; the lexeme behind
\* the newline is on row 2, in the column it has on its line.
C30_UnterminatedStopsBeforeNewline ==
  (Len(out) = 1 /\ ~hung) =>
    \A t \in OpenTails :
      OpenWith(Without(input, t), t) =>
        /\ out[1] = Lexeme(Without(input, t), "INVALID", 1, 1)
        /\ t # <<>> =>
             /\ Head(lookahead).token = IF Len(t) = 1 THEN "END" ELSE "IDENTIFIER"
             /\ At(Head(lookahead)) = <<2, IF Len(t) = 3 THEN 2 ELSE 1>>

\* The escape sequences of C, as text behind the backslash.
SimpleEscapes == {SQ, DQ, "?", BS, "a", "b", "f", "n", "r", "t", "v"}

Drop(s, n) == SubSeq(s, n + 1, Len(s))

\* The number of characters at the front of s that belong to S.
RECURSIVE RunOf(_, _)
RunOf(s, S) == IF s # <<>> /\ Head(s) \in S THEN 1 + RunOf(Tail(s), S) ELSE 0

\* Every backslash of the literal body b starts an escape sequence.
RECURSIVE EscapesOK(_)
\* t: the text behind a backslash.
EscapeThenOK(t) ==
  IF t = <<>> THEN FALSE
  ELSE CASE Head(t) \in SimpleEscapes -> EscapesOK(Tail(t))
         [] Head(t) \in OctDigits -> EscapesOK(Drop(t, Min(3, RunOf(t, OctDigits))))
         [] Head(t) = "x" ->
              /\ RunOf(Tail(t), XDigits) >= 1
              /\ EscapesOK(Drop(Tail(t), RunOf(Tail(t), XDigits)))
         [] Head(t) = "u" ->
              RunOf(Tail(t), XDigits) >= 4 /\ EscapesOK(Drop(Tail(t), 4))
         [] Head(t) = "U" ->
              RunOf(Tail(t), XDigits) >= 8 /\ EscapesOK(Drop(Tail(t), 8))
         [] OTHER -> FALSE

EscapesOK(b) ==
  IF b = <<>> THEN TRUE
  ELSE IF Head(b) = BS THEN EscapeThenOK(Tail(b)) ELSE EscapesOK(Tail(b))

\* The text between the opening quote and the last character.
EscBody == SubSeq(input, IF Head(input) = "L" THEN 3 ELSE 2, Len(input) - 1)

LiteralToken == IF input[Len(input)] = SQ THEN "INTEGER_LIT" ELSE "STRING_LIT"

\* The literal is one lexeme of its kind when its escapes are well formed,
\* and the first lexeme is INVALID when they are not.
EscapesDecide ==
  (input \in EscInputs /\ NulFree(input) /\ Returned # <<>>) =>
    IF EscapesOK(EscBody)
    THEN FirstLexeme = Lexeme(input, LiteralToken, 1, 1)
    ELSE FirstLexeme.token = "INVALID"

\* The characters other than octal digits that complete an escape on their own.
AcceptedAlone ==
  {h \in EscHeads \ (OctDigits \cup {NUL}) :
     ScanSeq(Members(<<DQ, BS, h, DQ>>), 1)[1].token = "STRING_LIT"}

EmptyThenTail(p, t) ==
  (input = p \o <<SQ, SQ>> \o t /\ ~hung /\ Returned # <<>>) =>
    /\ Returned[1] = Lexeme(p \o <<SQ, SQ>>, "INVALID", 1, 1)
    /\ (Len(Returned) >= 2 /\ (t = <<>> \/ ~isspace(Head(t)))) =>
         /\ At(Returned[2]) = <<1, Len(p) + 3>>
         /\ IF t = <<>> THEN Returned[2].token = "END"
            ELSE IsPrefix(<<Head(t)>>, Returned[2].lexeme)

\* C32: an empty character constant, with or without encoding prefix, is one
\* INVALID lexeme made of the prefix and both quotes, and the next lexeme
\* starts at the character right behind the second quote.
C32_EmptyConstantIsInvalid ==
  \A p \in LitPrefixes : \A t \in EmptyTails : EmptyThenTail(p, t)

\* L'' has been eaten and the identifier behind it is scanned.
C32_Witness ==
  /\ input = <<"L", SQ, SQ, "x">>
  /\ Len(out) = 1
  /\ out[1].token = "INVALID"
  /\ Head(lookahead).token = "IDENTIFIER"

\* The text starts with a radix prefix that no digit of the radix follows
\* (nor, for 0x, a point).
PrefixAlone ==
  /\ Len(input) >= 2
  /\ SubSeq(input, 1, 2) \in RadixPrefixes
  /\ Len(input) >= 3 =>
       IF input[2] \in {"x", "X"}
       THEN input[3] \notin XDigits \cup {"."}
       ELSE input[3] \notin {"0", "1"}

\* The character behind the prefix starts a lexeme of its own.
StartsLexeme(c) == is_ident_start(c) \/ isdigit(c) \/ c \in {SQ, ";", "."}

\* C33: a prefix 0x/0X with no hex digit or point behind it, and a prefix
\* 0b/0B with no 0 or 1 behind it, is an INVALID lexeme of exactly the two
\* prefix characters; the character behind it is not consumed and starts the
\* next lexeme.
C33_PrefixAloneIsInvalid ==
  (PrefixAlone /\ ~hung /\ Returned # <<>>) =>
    /\ Returned[1] = Lexeme(SubSeq(input, 1, 2), "INVALID", 1, 1)
    /\ op = "construct" => pos = 2
    /\ (Len(Returned) >= 2 /\ Len(input) >= 3 /\ StartsLexeme(input[3])) =>
         /\ At(Returned[2]) = <<1, 3>>
         /\ IsPrefix(<<input[3]>>, Returned[2].lexeme)

\* The cursor p = <<row, col>> moved over the discarded character c.
MoveBy(p, c) ==
  CASE c = NL -> <<p[1] + 1, 1>>
    [] c = SP -> <<p[1], p[2] + 1>>
    [] c = HT -> <<p[1], p[2] + cols_per_htab>>
    [] c = VT -> <<p[1] + rows_per_vtab, 1>>
    [] c = FF -> <<p[1] + rows_per_formfeed, 1>>
    [] OTHER -> p

RECURSIVE CursorAfter(_, _)
CursorAfter(p, w) == IF w = <<>> THEN p ELSE CursorAfter(MoveBy(p, Head(w)), Tail(w))

\* The characters in front of the first x of the text.
RECURSIVE LeadOf(_)
LeadOf(s) == IF s = <<>> \/ Head(s) = "x" THEN <<>> ELSE <<Head(s)>> \o LeadOf(Tail(s))

\* The text with the last character in front of the first x left out.
LeadCut == pop_back(LeadOf(input)) \o Drop(input, Len(LeadOf(input)))

\* C34: between tokens exactly space, tab, newline, vertical tab and form feed
\* are discarded, and each moves the cursor: newline to column 1 of the next
\* row, space one column on, tab cols_per_htab columns on, vertical tab and
\* form feed rows_per_vtab / rows_per_formfeed rows down to column 1; no
\* discarded character leaves the cursor where it was.
C34_WhitespaceMovesCursor ==
  (input \in WsInputs /\ ~hung /\ Returned # <<>> /\ Returned[1].token = "IDENTIFIER") =>
    /\ (op = "construct" /\ diags = <<>>) =>
         \A i \in 1..Len(LeadOf(input)) : LeadOf(input)[i] \in SpecWhitespace
    /\ (\A i \in 1..Len(LeadOf(input)) : LeadOf(input)[i] \in SpecWhitespace) =>
         At(Returned[1]) = CursorAfter(<<1, 1>>, LeadOf(input))
    /\ LeadOf(input) # <<>> =>
         At(Returned[1]) # At(ScanSeq(Members(LeadCut), 1)[1])
    /\ (Len(Returned) >= 2 /\ Returned[2].token = "IDENTIFIER") =>
         \E c \in WsChars :
           /\ c = input[Len(input) - 1]
           /\ At(Returned[2]) # <<Returned[1].row, Returned[1].col + 1>>
           /\ c \in SpecWhitespace =>
                At(Returned[2]) = MoveBy(<<Returned[1].row, Returned[1].col + 1>>, c)

\* The positions of the ungets in the log s of SourceReader calls.
Ungets(s) == {i \in 1..Len(s) : s[i] = "unget"}

\* Between any two ungets of s there is a get, and a get precedes the first.
GetBeforeEachUnget(s) ==
  \A j \in Ungets(s) :
    \E k \in 1..(j - 1) :
      /\ s[k] = "get"
      /\ \A i \in Ungets(s) : i < j => i < k

\* The first get or unget of s, "none" when s has neither.
FirstMove(s) ==
  LET moves == {i \in 1..Len(s) : s[i] # "peek"} IN
  IF moves = {} THEN "none" ELSE s[CHOOSE i \in moves : \A j \in moves : i <= j]

\* C35: at most one character is pushed back at a time.  Every unget puts back
\* the character the last get delivered (the stream never refuses it), a get
\* lies between any two ungets, within one call and from one scan to the
\* scan that follows it, a scan makes at most one unget, and nothing is put
\* back behind a read that met the end of input.
C35_OneCharacterOfPushback ==
  /\ ~badbit
  /\ GetBeforeEachUnget(io)
  /\ nscans <= 1 => Cardinality(Ungets(io)) <= 1
  /\ (io # <<>> /\ io[Len(io)] = "unget") =>
       /\ ~eofbit /\ pos < Len(input)
       /\ ~hung => FirstMove(scan_token(Self).io) # "unget"

\* An eat() whose scan read one character too many and put it back.
C35_Witness ==
  /\ op = "eat"
  /\ nscans = 1
  /\ Ungets(io) # {}
  /\ io[Len(io)] = "unget"
  /\ ~hung

\* The last eat() returned END, the last lexeme scanned until then, and scanned
\* once more to refill the queue.
ScannedPastEnd ==
  /\ op = "eat"
  /\ nscans = 1
  /\ out # <<>>
  /\ out[Len(out)].token = "END"

\* C36: a scan made after a scan has returned END (eat() past END) calls
\* neither get nor peek nor unget, leaves row and col where the END lexeme put
\* them, and returns END.
C36_ScanPastEndIsNoOp ==
  ScannedPastEnd =>
    /\ ~hung
    /\ io = <<>>
    /\ <<row, col>> = At(out[Len(out)])
    /\ LastScanned.token = "END"

\* The texts of the lexemes of v, one behind the other.
Texts(v) == Flatten([i \in 1..Len(v) |-> v[i].lexeme])

NotSpace(c) == ~isspace(c)

\* No character of s is one START skips with a diagnostic.
NothingToSkip(s) == \A i \in 1..Len(s) : s[i] \notin InvalidTop \cup {NUL}

\* C37: END is returned only when the stream has delivered every character of
\* the input, and by then every character that is not white space (and that
\* START does not skip with a diagnostic) stands in the text of a lexeme, in
\* the order of the input: no byte ends the input early or gets dropped.
C37_EndOnlyAtEndOfInput ==
  (~hung /\ lookahead # <<>> /\ LastScanned.token = "END") =>
    /\ pos = Len(input)
    /\ NothingToSkip(input) =>
         Texts(Returned) = SelectSeq(input, NotSpace)

\* The states of the escape sequences, and those of the literals around them.
EscapeStates ==
  {"GOT_ESCAPE_SEQUENCE", "GOT_ESCAPE_SEQUENCE_BS_OCT1", "GOT_ESCAPE_SEQUENCE_BS_OCT2",
   "GOT_ESCAPE_SEQUENCE_BS_x", "GOT_ESCAPE_SEQUENCE_BS_x_XDIGIT"} \cup DOMAIN UcnNext

CharConstStates == {"GOT_CHAR_CONST_START", "GOT_CHAR_CONST_CONT"}

\* The literal state a backslash read in state s comes back to.
ResumeState(s) == IF s \in CharConstStates THEN "GOT_CHAR_CONST_CONT" ELSE s

\* Configuration a is followed by b in a scan: what the stack may do.
StackStep(a, b) ==
  /\ Len(b.states) > Len(a.states) =>
       /\ a.st \in CharConstStates \cup {"GOT_STRING_LIT_START"}
       /\ b.c = BS
       /\ b.states = Append(a.states, ResumeState(a.st))
       /\ b.st = "GOT_ESCAPE_SEQUENCE"
  /\ Len(b.states) < Len(a.states) =>
       /\ Len(a.states) = 2
       /\ b.states = pop_back(a.states)
       /\ b.st = a.states[2]

\* The return-state stack over the configurations tr of one scan.
StackOK(tr) ==
  /\ \A i \in 1..Len(tr) :
       /\ Len(tr[i].states) \in {1, 2}
       /\ tr[i].states[1] = "START"
       /\ ~tr[i].done => (Len(tr[i].states) = 2 <=> tr[i].st \in EscapeStates)
  /\ \A i \in 1..(Len(tr) - 1) : StackStep(tr[i], tr[i + 1])

\* C38: within every scan the return-state stack holds 1 or 2 entries, START
\* at the bottom; it grows only when a character-constant or string-literal
\* state reads a backslash, never inside an escape, and it shrinks only by the
\* pop that ends the escape, which gives back the state of that literal.
\* Checked for the constructor's scan and for the scan the next eat() makes.
C38_StackHoldsOneOrTwo ==
  /\ op = "construct" => \E tr \in {TraceOf(ScanEntry(ScanStart(Members(input))))} : StackOK(tr)
  /\ ~hung => \E tr \in {TraceOf(ScanEntry(ScanStart(Self)))} : StackOK(tr)

\* The constant '\n\7' has been scanned by the constructor: the scan pushed
\* twice, popped twice and returned with START alone on the stack.
C38_Witness ==
  /\ input = <<SQ, BS, "n", BS, "7", SQ>>
  /\ op = "construct"
  /\ \E tr \in {TraceOf(ScanEntry(ScanStart(Members(input))))} :
       /\ \E i \in 1..Len(tr) : Len(tr[i].states) = 2
       /\ tr[Len(tr)].done
       /\ tr[Len(tr)].states = <<"START">>

\* C39: when a scan returns a lexeme other than END at (row, col) with a text
\* of L characters, the cursor behind the scan is (row, col + L), for the
\* returns with a fixed column advance (operators, keywords) as for the
\* others; and the text holds no newline.
C39_CursorIsBehindTheText ==
  (Scanned1 /\ LastScanned.token # "END") =>
    /\ <<row, col>> = <<LastScanned.row, LastScanned.col + Len(LastScanned.lexeme)>>
    /\ \A i \in 1..Len(LastScanned.lexeme) : LastScanned.lexeme[i] # NL

\* The integer literals among the lexemes so far that are numbers, not
\* character constants.
NumericLiterals ==
  {l \in {Returned[i] : i \in 1..Len(Returned)} :
     /\ l.token = "INTEGER_LIT"
     /\ l.lexeme # <<>>
     /\ isdigit(Head(l.lexeme))}

\* C40: a numeric integer literal takes an apostrophe only between two of its
\* digits: its text neither ends with an apostrophe nor holds two apostrophes
\* side by side.
C40_SeparatorOnlyBetweenDigits ==
  \A l \in NumericLiterals :
    /\ l.lexeme[Len(l.lexeme)] # SQ
    /\ \A i \in 1..(Len(l.lexeme) - 1) : ~(l.lexeme[i] = SQ /\ l.lexeme[i + 1] = SQ)

====
